---- MODULE Spec2Model ----
(***************************************************************************)
(* R-Car MIPI CSI-2 receiver (drivers/media/platform/rcar-vin/rcar-csi2.c) *)
(* Stream reference counting, bring-up / teardown under the controller     *)
(* mutex, and the two-stage fault interrupt.                               *)
(***************************************************************************)
EXTENDS Integers, Sequences, FiniteSets, TLC

\* ------------------------------------------------------------------ bounds

\* start() requests are issued only while stream_count < MaxCount
MaxCount == 2
\* stop() requests are issued only while stream_count > -MaxUnder
MaxUnder == 1
\* fault interrupts that request the deferred stage
MaxFaults == 1
\* entries of a speed table, the terminating entry not counted
MaxTable == 3
\* speed thresholds are drawn from 90, 95, ... in MaxSteps steps of 5 Mbps
MaxSteps == 5
\* entries of a phtw_value array in front of its terminating entry
MaxPairs == 2
\* INTSTATE_REG and INTERRSTATE_REG read values in 0..MaxReg
MaxReg == 2

\* ---------------------------------------------------------------- constants

\* rcsi2_phtw_write: for (timeout = 0; timeout <= 20; timeout++)
PhtwMaxTimeout == 20

\* ------------------------------------------------------- static descriptors

\* struct rcar_csi2_info instances; features is the RCAR_VIN_*_FEATURE bit
rcar_csi2_info_r8a7795 ==
    [name |-> "r8a7795", features |-> "none", init_phtw |-> "h3_v3h_m3n",
     phy_post_init |-> FALSE, hsfreqrange |-> TRUE, has_phyfrx_reg |-> FALSE]

rcar_csi2_info_r8a77970 ==
    [name |-> "r8a77970", features |-> "none", init_phtw |-> "v3m_e3",
     phy_post_init |-> TRUE, hsfreqrange |-> FALSE, has_phyfrx_reg |-> FALSE]

rcar_csi2_info_r8a779a0 ==
    [name |-> "r8a779a0", features |-> "none", init_phtw |-> "v3u",
     phy_post_init |-> FALSE, hsfreqrange |-> TRUE, has_phyfrx_reg |-> TRUE]

rcar_csi2_info_r8a779g0 ==
    [name |-> "r8a779g0", features |-> "R8A779G0", init_phtw |-> "none",
     phy_post_init |-> FALSE, hsfreqrange |-> FALSE, has_phyfrx_reg |-> FALSE]

rcar_csi2_info_r8a779h0 ==
    [name |-> "r8a779h0", features |-> "R8A779H0", init_phtw |-> "v4m",
     phy_post_init |-> FALSE, hsfreqrange |-> TRUE, has_phyfrx_reg |-> FALSE]

rcar_csi2_info_r8a78000 ==
    [name |-> "r8a78000", features |-> "R8A78000", init_phtw |-> "v3u",
     phy_post_init |-> FALSE, hsfreqrange |-> TRUE, has_phyfrx_reg |-> TRUE]

\* the match table: one descriptor per distinct bring-up behaviour
rcar_csi2_of_table ==
    { rcar_csi2_info_r8a7795, rcar_csi2_info_r8a77970, rcar_csi2_info_r8a779a0,
      rcar_csi2_info_r8a779g0, rcar_csi2_info_r8a779h0, rcar_csi2_info_r8a78000 }

\* ---------------------------------------------------------------- processes

\* s_stream calls in flight: a call takes the first free slot
CallSlots == << "c1", "c2" >>
Callers == { CallSlots[i] : i \in 1..Len(CallSlots) }
\* the handler thread of the threaded interrupt
IrqThread == "irq_thread"
Procs == Callers \cup {IrqThread}

VARIABLES
    info,             \* priv->info, chosen at probe
    cphy_connection,  \* priv->cphy_connection, from the endpoint
    remote,           \* priv->remote != NULL
    mf_valid,         \* priv->mf.code is a code of rcar_csi2_formats
    lock,             \* owner of priv->lock, or "free"
    stream_count,     \* priv->stream_count
    hw,               \* receiver, power and source state
    pc,               \* position of each task
    enable,           \* s_stream's enable argument of each caller
    ret,              \* the local ret of each task
    thread_wake,      \* IRQ_WAKE_THREAD requested and not yet consumed
    faults,           \* history: rcsi2_irq executions returning IRQ_WAKE_THREAD
    recoveries,       \* history: rcsi2_irq_thread executions begun
    ops,              \* history: what each task's current call has executed, in order
    fail,             \* history: the step of the current rcsi2_start that failed
    pre_count,        \* history: stream_count read by the current s_stream call
    run,              \* history: <<start() calls, bring-ups>> since a start() found count 0
    restart_failed,   \* history: the last recovery's restart failed, no start() returned since
    job,              \* function-level run: the routine called and its arguments
    upc,              \* function-level run: position inside the routine
    out,              \* function-level run: return value and selected table entry
    reads,            \* function-level run: PHTW_REG reads of the current indirect write
    idx,              \* function-level run: index into the phtw_value array
    wlog,             \* function-level run: register writes issued, in order
    last_read,        \* function-level run: enable bits seen by the latest PHTW_REG read
    failed_at,        \* history: Len(wlog) when an indirect write first timed out
    lp11_at,          \* history: the first stop-state read that showed the clock lane and
                      \*          every active data lane in stop state, 0 while there is none
    irq_under         \* history: owner of priv->lock when rcsi2_irq requested the pending wake-up

vars == << info, cphy_connection, remote, mf_valid, lock, stream_count, hw, pc,
           enable, ret, thread_wake, faults, recoveries, ops, fail, pre_count,
           run, restart_failed, job, upc, out, reads, idx, wlog, last_read,
           failed_at, lp11_at, irq_under >>

cfg_vars == << info, cphy_connection >>
unit_vars == << job, upc, out, reads, idx, wlog, last_read, failed_at,
               lp11_at >>
drv_vars == << remote, mf_valid, lock, stream_count, hw, pc, enable, ret,
               thread_wake, faults, recoveries, ops, fail, pre_count, run,
               restart_failed, irq_under >>
hist_vars == << faults, recoveries, ops, fail, pre_count, run, restart_failed >>

NoRun == << -1, 0 >>

\* ------------------------------------------------------------ feature tests

IsV4H == info.features = "R8A779G0"
IsV4M == info.features = "R8A779H0"
IsX5H == info.features = "R8A78000"

\* ------------------------------------------------------- standby / power

\* PHYCNT cleared (not on V4H), reset asserted (not on X5H), runtime PM put
rcsi2_enter_standby(h) ==
    [h EXCEPT !.standby = TRUE, !.phy = "off", !.pm_usage = @ - 1]

\* runtime PM get, reset deasserted (not on X5H)
rcsi2_exit_standby(h) ==
    [h EXCEPT !.standby = FALSE, !.pm_usage = @ + 1]

\* ----------------------------------------------------- function-level runs
\* The speed lookups, the indirect register channel and the immediate
\* interrupt stage, each run on its own over bounded arguments.

\* errno values as the routines return them (negated)
Errno(name) ==
    CASE name = "ERANGE" -> 34
      [] name = "ETIMEDOUT" -> 110
      [] name = "EINVAL" -> 22
      [] name = "ENODEV" -> 19
      [] name = "ENOTCONN" -> 107
      [] name = "ENOIOCTLCMD" -> 515

\* conversion to u16, the return type of rcsi2_get_osc_freq
U16(x) == x % 65536

\* a - b in unsigned 32-bit arithmetic for 0 <= a, b < 2^31: the result is
\* hi * 2^32 + lo, with lo negative after a wrap
Sub32(a, b) == IF a >= b THEN [hi |-> 0, lo |-> a - b] ELSE [hi |-> 1, lo |-> a - b]

Le32(x, y) == x.hi < y.hi \/ (x.hi = y.hi /\ x.lo <= y.lo)

Lt32(x, y) == x.hi < y.hi \/ (x.hi = y.hi /\ x.lo < y.lo)

\* struct rcsi2_mbps_reg tables: ascending thresholds, closed by { 0, 0 }
Sentinel == [mbps |-> 0, reg |-> 0]

Thresholds == { 85 + 5 * k : k \in 1..MaxSteps }

Targets == { 85 + 5 * k : k \in 0..(MaxSteps + 1) }

SortedSeq(S) ==
    CHOOSE s \in [1..Cardinality(S) -> S] :
        \A i, j \in 1..Cardinality(S) : i < j => s[i] < s[j]

SpeedTable(S) ==
    [i \in 1..(Cardinality(S) + 1) |->
        IF i <= Cardinality(S)
        THEN [mbps |-> SortedSeq(S)[i], reg |-> 16 * i]
        ELSE Sentinel]

AscendingTables ==
    { SpeedTable(S) :
        S \in { T \in SUBSET Thresholds : T # {} /\ Cardinality(T) <= MaxTable } }

\* the indices of the real entries of a table
Entries(t) == 1..(Len(t) - 1)

FirstMbps(t) == t[1].mbps

LastMbps(t) == t[Len(t) - 1].mbps

\* for (e = table; e->mbps != 0; e++) if (e->mbps >= mbps) break;
ScanStop(t, mbps) ==
    CHOOSE i \in 1..Len(t) :
        /\ t[i].mbps = 0 \/ t[i].mbps >= mbps
        /\ \A j \in 1..(i - 1) : ~(t[j].mbps = 0 \/ t[j].mbps >= mbps)

\* a lookup that keeps the previous entry only when it is strictly nearer
Closer_strict(mbps, prev, cur) == Lt32(Sub32(mbps, prev), Sub32(cur, mbps))

\* (mbps - prev->mbps) <= (cur->mbps - mbps), both sides unsigned int
Closer(mbps, prev, cur) == Le32(Sub32(mbps, prev), Sub32(cur, mbps))

Lookup(r, s, w) == [ret |-> r, sel |-> s, writes |-> w]

\* the range test comes before the comparison with the previous entry
rcsi2_set_phypll(t, mbps) ==
    LET i == ScanStop(t, mbps) IN
    IF t[i].mbps = 0
    THEN Lookup(-Errno("ERANGE"), 0, << >>)
    ELSE LET s == IF i > 1 /\ Closer(mbps, t[i - 1].mbps, t[i].mbps)
                  THEN i - 1 ELSE i
         IN Lookup(0, s, << [reg |-> IF IsV4M THEN "V4M_PHYPLL" ELSE "PHYPLL_REG",
                             val |-> t[s].reg] >>)

\* returns u16: the register value, or -ERANGE converted to u16
rcsi2_get_osc_freq(t, mbps) ==
    LET i == ScanStop(t, mbps) IN
    IF t[i].mbps = 0
    THEN Lookup(U16(-Errno("ERANGE")), 0, << >>)
    ELSE LET s == IF i > 1 /\ Closer(mbps, t[i - 1].mbps, t[i].mbps)
                  THEN i - 1 ELSE i
         IN Lookup(t[s].reg, s, << >>)

\* the comparison with the previous entry comes before the range test; the
\* selected value then goes to rcsi2_phtw_write
rcsi2_phtw_write_mbps(t, mbps, code) ==
    LET i == ScanStop(t, mbps)
        s == IF i > 1 /\ Closer(mbps, t[i - 1].mbps, t[i].mbps)
             THEN i - 1 ELSE i
    IN IF t[s].mbps = 0
       THEN Lookup(-Errno("ERANGE"), 0, << >>)
       ELSE Lookup(0, s, << [reg |-> "PHTW_REG",
                             val |-> [data |-> t[s].reg, code |-> code]] >>)

LookupFns == { "rcsi2_set_phypll", "rcsi2_get_osc_freq", "rcsi2_phtw_write_mbps" }

\* struct phtw_value arrays, closed by { 0, 0 }; an entry { 0, 0 } inside
\* the array closes it as well
PhtwPairs == [data : 0..1, code : 0..1]

PhtwArrays ==
    { Append(a, [data |-> 0, code |-> 0]) :
        a \in UNION { [1..n -> PhtwPairs] : n \in 0..MaxPairs } }
    \cup { \* step5 of rcsi2_d_phy_setting, step33 of rcsi2_init_phtw_v4m
           << [data |-> 0, code |-> 0], [data |-> 0, code |-> 30],
              [data |-> 0, code |-> 0] >>,
           << [data |-> 0, code |-> 0], [data |-> 60, code |-> 8],
              [data |-> 0, code |-> 0] >> }

\* a polling loop that gives up one read early
PollAgain_short(timeout) == timeout < PhtwMaxTimeout

\* the loop test of rcsi2_phtw_write
PollAgain(timeout) == timeout <= PhtwMaxTimeout

\* an array loop that ignores the result of a write
ArrayAfterWrite_ignored(r) == "call"

\* rcsi2_phtw_write_array: if (ret) return ret;
ArrayAfterWrite(r) == IF r # 0 THEN "done" ELSE "call"

Irqreturn(name) ==
    CASE name = "IRQ_NONE" -> 0
      [] name = "IRQ_HANDLED" -> 1
      [] name = "IRQ_WAKE_THREAD" -> 2

\* a handler that wakes the thread on any status
rcsi2_irq_handler_eager(status, err_status) ==
    IF status = 0
    THEN [ret |-> Irqreturn("IRQ_HANDLED"), writes |-> << >>]
    ELSE [ret |-> Irqreturn("IRQ_WAKE_THREAD"),
          writes |-> << [reg |-> "INTSTATE_REG", val |-> status],
                        [reg |-> "INTERRSTATE_REG", val |-> err_status] >>]

\* rcsi2_irq: the register writes and the return value for the values read
rcsi2_irq_handler(status, err_status) ==
    IF status = 0
    THEN [ret |-> Irqreturn("IRQ_HANDLED"), writes |-> << >>]
    ELSE IF err_status = 0
    THEN [ret |-> Irqreturn("IRQ_HANDLED"),
          writes |-> << [reg |-> "INTSTATE_REG", val |-> status] >>]
    ELSE [ret |-> Irqreturn("IRQ_WAKE_THREAD"),
          writes |-> << [reg |-> "INTSTATE_REG", val |-> status],
                        [reg |-> "INTERRSTATE_REG", val |-> err_status] >>]

\* ----------------------------------------------------------- configuration

\* a D-PHY endpoint with any lane count up to four
LanesSupported_upto4(bus_type, lanes) ==
    IF bus_type = "DPHY" THEN lanes \in 1..4 ELSE lanes = 3

\* the lane counts rcsi2_parse_v4l2 takes for a bus type
LanesSupported(bus_type, lanes) ==
    IF bus_type = "DPHY" THEN lanes \in {1, 2, 4} ELSE lanes = 3

\* rcsi2_parse_v4l2: the return value and the fields of priv it has set.
\* lane_swap[i], i zero-based, is the endpoint's lane for a used position
\* and the index itself for an unused one; the loop stops at the first
\* entry outside 1..4
rcsi2_parse_v4l2(vep) ==
    LET entry(i) == IF i < vep.num_data_lanes THEN vep.data_lanes[i + 1] ELSE i
        bad == { i \in 0..3 : entry(i) < 1 \/ entry(i) > 4 }
        first_bad == CHOOSE i \in bad : \A k \in bad : i <= k
        unset == [i \in 1..4 |-> 0]
        upto(n) == [i \in 1..4 |-> IF i - 1 <= n THEN entry(i - 1) ELSE 0]
    IN  IF vep.port # 0 \/ vep.id # 0
        THEN [ret |-> -Errno("ENOTCONN"), lanes |-> 0, cphy |-> FALSE,
              lane_swap |-> unset]
        ELSE IF vep.bus_type \notin {"DPHY", "CPHY"}
        THEN [ret |-> -Errno("EINVAL"), lanes |-> 0, cphy |-> FALSE,
              lane_swap |-> unset]
        ELSE IF ~LanesSupported(vep.bus_type, vep.num_data_lanes)
        THEN [ret |-> -Errno("EINVAL"), lanes |-> vep.num_data_lanes,
              cphy |-> FALSE, lane_swap |-> unset]
        ELSE IF bad # {}
        THEN [ret |-> -Errno("EINVAL"), lanes |-> vep.num_data_lanes,
              cphy |-> vep.bus_type = "CPHY", lane_swap |-> upto(first_bad)]
        ELSE [ret |-> 0, lanes |-> vep.num_data_lanes,
              cphy |-> vep.bus_type = "CPHY", lane_swap |-> upto(3)]

\* ------------------------------------------------ register values

\* rcar_csi2_formats, by data type and bits per pixel
rcar_csi2_formats ==
    { [datatype |-> 36, bpp |-> 24], [datatype |-> 30, bpp |-> 16],
      [datatype |-> 30, bpp |-> 20], [datatype |-> 43, bpp |-> 10],
      [datatype |-> 42, bpp |-> 8] }

\* a register value as the set of its bits that are 1: the bits of a
\* number below 2^16, and a left shift within 32 bits
Bits(x) == { b \in 0..15 : (x \div (2 ^ b)) % 2 = 1 }
Shl(S, n) == { b + n : b \in { c \in S : c + n < 32 } }

\* a mapping word shifted by half a half-word
VcdtShift_byte(i) == (i % 2) * 8

\* vcdt_part << ((i % 2) * 16)
VcdtShift(i) == (i % 2) * 16

\* the frame-count selector chosen for every height up to 240
FldNum_upto(height) == IF height <= 240 THEN 0 ELSE 1

\* FLD_FLD_NUM: 0 for a field height of 240, 1 otherwise
FldNum(height) == IF height = 240 THEN 0 ELSE 1

\* VCDT_SEL_VC(i) | VCDT_VCDTN_EN | VCDT_SEL_DTN_ON | VCDT_SEL_DT(datatype)
vcdt_part(i, datatype) ==
    Shl(Bits(i % 4), 8) \cup {15} \cup {6} \cup Bits(datatype % 64)

\* the register values rcsi2_start_receiver computes from the format, and
\* the writes of VCDT_REG, VCDT2_REG and FLD_REG it issues with them; a.phy
\* is what init_phtw and rcsi2_set_phypll return, and an error of theirs
\* ends the routine before FLD_REG is written
rcsi2_start_receiver_regs(a) ==
    LET chan == 0..(a.num_channels - 1)
        word(i) == Shl(vcdt_part(i, a.datatype), VcdtShift(i))
        vcdt == UNION { word(i) : i \in { k \in chan : k < 2 } }
        vcdt2 == UNION { word(i) : i \in { k \in chan : k >= 2 } }
        fld == IF a.field = "ALTERNATE"
               THEN Shl(Bits(1), 4) \cup {3, 2, 1, 0}
                    \cup Shl(Bits(FldNum(a.height)), 16)
               ELSE {}
    IN  [ret |-> a.phy, vcdt |-> vcdt, vcdt2 |-> vcdt2, fld |-> fld,
         writes |->
            (IF a.no_use_vdt THEN << >>
             ELSE << [reg |-> "VCDT_REG", val |-> vcdt] >>
                  \o (IF vcdt2 # {} THEN << [reg |-> "VCDT2_REG", val |-> vcdt2] >>
                      ELSE << >>))
            \o (IF a.phy # 0 THEN << >>
                ELSE << [reg |-> "FLD_REG", val |-> fld] >>)]

\* ----------------------------------------------------- V4M calibration

\* V4M_PHTW_DIN_DATA_D(n): (((n) & 0xf00) >> 16)
V4M_PHTW_DIN_DATA_D(n) == ((n % 4096) - (n % 256)) \div 65536

\* the step32 loop of rcsi2_init_phtw_v4m for the oscillator target
\* a.osc_freq, no write timing out: the loop runs while "value->data ||
\* value->code" and writes V4M_PHTW_DIN_DATA_PP(osc_freq) with code 0xE2,
\* V4M_PHTW_DIN_DATA_D(osc_freq) with code 0xE3 and the listed data with
\* every other code
rcsi2_init_phtw_v4m_step32(a) ==
    LET step32 == << [data |-> 0, code |-> 0], [data |-> 0, code |-> 226],
                     [data |-> 0, code |-> 227], [data |-> 1, code |-> 228],
                     [data |-> 0, code |-> 0] >>
        stop == CHOOSE n \in 1..5 :
                    /\ step32[n] = [data |-> 0, code |-> 0]
                    /\ \A k \in 1..(n - 1) : step32[k] # [data |-> 0, code |-> 0]
        data(v) == IF v.code = 226 THEN a.osc_freq % 256
                   ELSE IF v.code = 227 THEN V4M_PHTW_DIN_DATA_D(a.osc_freq)
                   ELSE v.data
    IN  [ret |-> 0,
         writes |-> [k \in 1..(stop - 1) |->
                       [reg |-> "V4M_PHTW",
                        val |-> [data |-> data(step32[k]),
                                 code |-> step32[k].code]]]]

\* ------------------------------------------------------ C-PHY timing table

\* the msps column of cphy_setting_table_r8a779g0, sentinel included
cphy_setting_table_r8a779g0 ==
    << 80 >> \o [i \in 1..35 |-> 100 * i] \o << 0 >>

\* the scan leaves at an entry on ">="
CphyScanBreak_at_equal(msps, data_rate) == msps >= data_rate

\* if (cphy_setting_value->msps > data_rate) break;
CphyScanBreak(msps, data_rate) == msps > data_rate

\* the head of rcsi2_c_phy_setting: the scan for the timing entry, the
\* -ERANGE return on the sentinel, and the first register write behind it
rcsi2_c_phy_lookup(a) ==
    LET t == cphy_setting_table_r8a779g0
        at == CHOOSE k \in DOMAIN t :
                  /\ t[k] = 0 \/ CphyScanBreak(t[k], a.data_rate)
                  /\ \A m \in 1..(k - 1) :
                        t[m] # 0 /\ ~CphyScanBreak(t[m], a.data_rate)
    IN  IF t[at] = 0
        THEN [ret |-> -Errno("ERANGE"), msps |-> 0, writes |-> << >>]
        ELSE [ret |-> 0, msps |-> t[at],
              writes |-> << [reg |-> "CORE_DIG_RW_COMMON_7", val |-> 341] >>]

\* ------------------------------------------------------------ pin swap

\* rcar_csi2_pin_swaps: ABC, CBA, ACB, CAB, BAC, BCA
rcar_csi2_pin_swaps ==
    << [code |-> 0, rw_cfg0_b2_0 |-> 0, rw_cfg0_b3 |-> 0, afe_clane_29_b8 |-> 0],
       [code |-> 1, rw_cfg0_b2_0 |-> 1, rw_cfg0_b3 |-> 1, afe_clane_29_b8 |-> 1],
       [code |-> 2, rw_cfg0_b2_0 |-> 2, rw_cfg0_b3 |-> 1, afe_clane_29_b8 |-> 1],
       [code |-> 3, rw_cfg0_b2_0 |-> 3, rw_cfg0_b3 |-> 0, afe_clane_29_b8 |-> 0],
       [code |-> 4, rw_cfg0_b2_0 |-> 4, rw_cfg0_b3 |-> 1, afe_clane_29_b8 |-> 1],
       [code |-> 5, rw_cfg0_b2_0 |-> 5, rw_cfg0_b3 |-> 0, afe_clane_29_b8 |-> 0] >>

\* the pin-swap loop of rcsi2_c_phy_setting for priv->pin_swap_rx_order =
\* a.order (trio i at a.order[i + 1]): per trio, in order, the write of bit
\* 8 of its pin_swap_reg, taken from rcar_csi2_pin_swaps[i], and for every
\* table entry j whose code is the trio's a write of bits 3..0 of its
\* rwconf_reg, bits 2..0 and bit 3 taken from rcar_csi2_pin_swaps[j]
rcsi2_c_phy_pin_swap(a) ==
    LET b8(i) == [reg |-> "pin_swap_reg", trio |-> i,
                  val |-> rcar_csi2_pin_swaps[i + 1].afe_clane_29_b8]
        match(i) == { j \in 1..6 : rcar_csi2_pin_swaps[j].code = a.order[i + 1] }
        cfg(i) == IF match(i) = {} THEN << >>
                  ELSE LET j == CHOOSE j \in match(i) : TRUE IN
                       << [reg |-> "rwconf_reg", trio |-> i,
                           val |-> rcar_csi2_pin_swaps[j].rw_cfg0_b2_0
                                   + 8 * rcar_csi2_pin_swaps[j].rw_cfg0_b3] >>
        trio(i) == << b8(i) >> \o cfg(i)
    IN  [ret |-> 0,
         writes |-> IF a.pin_swap THEN trio(0) \o trio(1) \o trio(2) ELSE << >>]

\* ------------------------------------------------------ teardown steps

\* a teardown that takes the Gen3 steps on every variant
rcsi2_enter_standby_steps_gen3(a) ==
    [ret |-> 0,
     inten |-> IF a.reset_clears THEN {} ELSE a.inten,
     writes |-> << [reg |-> "PHYCNT_REG", val |-> {}],
                   [reg |-> "PHTC_REG", val |-> {0}],
                   [reg |-> "reset_control_assert", val |-> {}],
                   [reg |-> "usleep_range", val |-> {}],
                   [reg |-> "pm_runtime_put", val |-> {}] >>]

\* rcsi2_enter_standby step by step: the two register writes (not on V4H),
\* reset_control_assert (not on X5H), the delay and pm_runtime_put, and
\* INTEN_REG after it: a.inten is the register before the routine, which
\* writes it nowhere; whether the asserted reset clears it is the
\* hardware's matter (a.reset_clears)
rcsi2_enter_standby_steps(a) ==
    [ret |-> 0,
     inten |-> IF ~IsX5H /\ a.reset_clears THEN {} ELSE a.inten,
     writes |->
        (IF IsV4H THEN << >>
         ELSE << [reg |-> "PHYCNT_REG", val |-> {}],
                 [reg |-> "PHTC_REG", val |-> {0}] >>)
        \o (IF IsX5H THEN << >>
            ELSE << [reg |-> "reset_control_assert", val |-> {}] >>)
        \o << [reg |-> "usleep_range", val |-> {}],
              [reg |-> "pm_runtime_put", val |-> {}] >>]

\* ---------------------------------------------------------- active lanes

\* rcsi2_get_active_lanes(priv, &lanes): its return value and *lanes, with
\* a.lanes for priv->lanes, a.remote for priv->remote, a.query for what the
\* source's get_mbus_config returns and a.type, a.flags for the bus type
\* and the V4L2_MBUS_CSI2_n_LANE flags of its answer. v4l2_subdev_call on a
\* NULL subdev yields -ENODEV. num_lanes keeps UINT_MAX when no flag is set,
\* which is above every value of the unsigned short priv->lanes.
rcsi2_get_active_lanes_of(a) ==
    LET r0 == IF ~a.remote THEN -Errno("ENODEV") ELSE a.query
        num_lanes == CHOOSE n \in a.flags : \A m \in a.flags : n <= m
        res(r, n) == [ret |-> r, lanes |-> n]
    IN  IF IsX5H THEN res(0, a.lanes)
        ELSE IF r0 = -Errno("ENOIOCTLCMD") THEN res(0, a.lanes)
        ELSE IF r0 # 0 THEN res(r0, a.lanes)
        ELSE IF a.type \notin { "DPHY", "CPHY" } THEN res(-Errno("EINVAL"), a.lanes)
        ELSE IF a.flags = {} THEN res(-Errno("EINVAL"), a.lanes)
        ELSE IF num_lanes > a.lanes THEN res(-Errno("EINVAL"), a.lanes)
        ELSE res(0, num_lanes)

\* ----------------------------------------------------------- link speed

\* the divisor of the link frequency, which counts two bits per cycle
MbpsDivisor_link_freq(lanes) == 2 * lanes * 1000000

\* do_div(mbps, lanes * 1000000)
MbpsDivisor(lanes) == lanes * 1000000

\* the value of rcsi2_calc_mbps(priv, bpp, lanes) with a.remote for priv->remote, a.ctrl
\* for the source having a V4L2_CID_PIXEL_RATE control and a.rate for its
\* value; on X5H 7423000000 / (lanes * 1000000), which is 7423 / lanes
rcsi2_calc_mbps_of(a) ==
    IF IsX5H THEN 7423 \div a.lanes
    ELSE IF ~a.remote THEN -Errno("ENODEV")
    ELSE IF ~a.ctrl THEN -Errno("EINVAL")
    ELSE (a.rate * a.bpp) \div MbpsDivisor(a.lanes)

\* do_div(data_rate, 2.8): do_div is defined outside this driver; division
\* by the symbol-efficiency factor 2.8, rounded down
do_div_2_8(n) == (n * 10) \div 28

\* a V4H routine that converts the rate whatever the bus
v4h_data_rate_always(mbps, cphy) == do_div_2_8(mbps)

\* rcsi2_start_receiver_v4h: the rate handed to rcsi2_c_phy_setting or
\* rcsi2_d_phy_setting, "if (priv->cphy_connection) do_div(data_rate, 2.8)"
v4h_data_rate(mbps, cphy) == IF cphy THEN do_div_2_8(mbps) ELSE mbps

\* ------------------------------------------- what the environment answers

\* the speed table of the model's variants, and the link speeds a source
\* can ask for: one inside the table's range, one above its last threshold
SampleTable == SpeedTable({90, 100})
SampleSpeeds == {95, 105}
AboveRange(mbps) == mbps > LastMbps(SampleTable)

\* One bring-up's answers from the source and from the PHY:
\*   lanes   get_mbus_config of the source          (rcsi2_get_active_lanes)
\*   rate    the source's pixel rate control        (rcsi2_calc_mbps)
\*   mbps    the link speed computed from the rate  (rcsi2_calc_mbps)
\*   phtw    PHTW_REG's enable bits clear in time   (rcsi2_phtw_write)
\*   lp11    stop state seen within the window      (rcsi2_wait_phy_start)
\*   post    the variant's phy_post_init hook
\*   ready   calibration ready seen within 10 reads (rcsi2_c_phy_setting,
\*           rcsi2_d_phy_setting)
AllAnswers ==
    [ lanes : {"ok", "EINVAL"}, rate : {"ok", "EINVAL"}, mbps : SampleSpeeds,
      phtw : {"ok", "ETIMEDOUT"}, lp11 : BOOLEAN, post : {"ok", "ETIMEDOUT"},
      ready : BOOLEAN ]

\* the number of bad answers in e
BadAnswers(e) ==
    (IF e.lanes # "ok" THEN 1 ELSE 0) + (IF e.rate # "ok" THEN 1 ELSE 0)
    + (IF AboveRange(e.mbps) THEN 1 ELSE 0)
    + (IF e.phtw # "ok" THEN 1 ELSE 0) + (IF ~e.lp11 THEN 1 ELSE 0)
    + (IF e.post # "ok" THEN 1 ELSE 0) + (IF ~e.ready THEN 1 ELSE 0)

\* A routine returns at its first bad answer and asks nothing further, so
\* the answers with at most one bad one cover every outcome
RecvEnv == { e \in AllAnswers : BadAnswers(e) <= 1 }

\* v4l2_subdev_call on a NULL subdev yields -ENODEV; X5H asks nobody
rcsi2_get_active_lanes(e) ==
    IF IsX5H THEN "ok" ELSE IF ~remote THEN "ENODEV" ELSE e.lanes

\* X5H uses a fixed rate; otherwise the source's pixel rate control is read
rcsi2_calc_mbps(e) ==
    IF IsX5H THEN "ok" ELSE IF ~remote THEN "ENODEV" ELSE e.rate

\* the result of a receiver routine: its return value, the step that failed
\* (also when the failure is not returned), the PHY state it leaves, and the
\* register steps it took, in order:
\*   reg_write     the first plain register writes of the routine
\*   range_error   a speed lookup returned -ERANGE
\*   range_missed  a speed lookup wrote an entry for a speed above its table
\*   frx_set       the force-RX overrides asserted (PHYFRX_REG or FRXM)
\*   frx_release   the force-RX overrides released
Result(r, f, p, t) == [ret |-> r, fail |-> f, phy |-> p, trace |-> t]

\* the errno name of a lookup's return value
ErrName(r) ==
    IF r = 0 THEN "ok" ELSE IF r = -Errno("ERANGE") THEN "ERANGE" ELSE "EIO"

\* a lookup's part of the trace
LookupTrace(l, mbps) ==
    IF l.ret # 0 THEN << "range_error" >>
    ELSE IF AboveRange(mbps) THEN << "range_missed" >>
    ELSE << >>

\* the variant's init_phtw hook: its return value and its part of the trace.
\* h3_v3h_m3n consults its table only at speeds the table covers; v3m_e3
\* and v3u go through rcsi2_phtw_write_mbps; v4m's arrays are empty, which
\* leaves its rcsi2_set_phypll call
rcsi2_init_phtw(e) ==
    IF info.init_phtw \in {"v3m_e3", "v3u"}
    THEN LET l == rcsi2_phtw_write_mbps(SampleTable, e.mbps,
                                        IF info.init_phtw = "v3u" THEN 226
                                        ELSE 68)
         IN  [ret |-> IF l.ret # 0 THEN ErrName(l.ret) ELSE e.phtw,
              fail |-> IF l.ret # 0 THEN "range"
                       ELSE IF e.phtw # "ok" THEN "calib" ELSE "none",
              trace |-> LookupTrace(l, e.mbps)]
    ELSE IF info.init_phtw = "v4m"
    THEN LET l == rcsi2_set_phypll(SampleTable, e.mbps)
         IN  [ret |-> ErrName(l.ret),
              fail |-> IF l.ret # 0 THEN "range" ELSE "none",
              trace |-> LookupTrace(l, e.mbps)]
    ELSE IF info.init_phtw = "h3_v3h_m3n"
    THEN [ret |-> e.phtw, fail |-> IF e.phtw # "ok" THEN "calib" ELSE "none",
          trace |-> << >>]
    ELSE [ret |-> "ok", fail |-> "none", trace |-> << >>]

\* the hsfreqrange lookup of rcsi2_start_receiver
PhypllStep(e) ==
    IF info.hsfreqrange THEN rcsi2_set_phypll(SampleTable, e.mbps)
    ELSE Lookup(0, 0, << >>)

\* PHYFRX_REG written with the force-RX bits on variants that have it
PhyfrxSet == IF info.has_phyfrx_reg THEN << "frx_set" >> ELSE << >>

\* PHYFRX_REG cleared once the stop state was seen
PhyfrxRelease == IF info.has_phyfrx_reg THEN << "frx_release" >> ELSE << >>

\* Gen3 (and V3U) bring-up
rcsi2_start_receiver(e) ==
    IF ~mf_valid THEN Result("EINVAL", "format", "off", << >>)
    ELSE IF rcsi2_get_active_lanes(e) # "ok"
        THEN Result(rcsi2_get_active_lanes(e), "lanes", "off", << >>)
    ELSE IF rcsi2_calc_mbps(e) # "ok"
        THEN Result(rcsi2_calc_mbps(e), "rate", "off", << >>)
    ELSE LET w == rcsi2_init_phtw(e)
             l == PhypllStep(e)
             t1 == << "reg_write" >> \o w.trace
             t2 == t1 \o LookupTrace(l, IF info.hsfreqrange THEN e.mbps ELSE 0)
             t3 == t2 \o PhyfrxSet
             t4 == t3 \o PhyfrxRelease
         IN  IF w.ret # "ok" THEN Result(w.ret, w.fail, "off", t1)
             ELSE IF l.ret # 0 THEN Result(ErrName(l.ret), "range", "off", t2)
             ELSE IF ~e.lp11 THEN Result("ETIMEDOUT", "poll", "up", t3)
             ELSE IF info.phy_post_init /\ e.post # "ok"
                 THEN Result(e.post, "calib", "up", t4)
             ELSE Result("ok", "none", "up", t4)

\* the C-PHY table lookup fails before the PHY leaves shutdown, the
\* calibration-ready poll after it
rcsi2_c_phy_setting(e) ==
    IF AboveRange(e.mbps)
        THEN Result("ERANGE", "range", "off", << "range_error" >>)
    ELSE IF ~e.ready THEN Result("ETIMEDOUT", "ready", "up", << >>)
    ELSE Result("ok", "none", "up", << >>)

\* no table; the PHY leaves shutdown, then the calibration-ready poll
rcsi2_d_phy_setting(e) ==
    IF ~e.ready THEN Result("ETIMEDOUT", "ready", "up", << >>)
    ELSE Result("ok", "none", "up", << >>)

\* steps T0 and T1 of V4H and V4M with the overrides released again
V4StaticSetting_released == << "reg_write", "frx_set", "frx_release" >>

\* steps T0 and T1 of V4H and V4M: resets written, FRXM's force-RX bits set
V4StaticSetting == << "reg_write", "frx_set" >>

\* V4H bring-up: the PHY setting's result is logged and 0 is returned
rcsi2_start_receiver_v4h(e) ==
    IF rcsi2_get_active_lanes(e) # "ok"
        THEN Result(rcsi2_get_active_lanes(e), "lanes", "off", << >>)
    ELSE IF rcsi2_calc_mbps(e) # "ok"
        THEN Result(rcsi2_calc_mbps(e), "rate", "off", << >>)
    ELSE LET s == IF cphy_connection THEN rcsi2_c_phy_setting(e)
                  ELSE rcsi2_d_phy_setting(e)
         IN  Result("ok", s.fail, s.phy, V4StaticSetting \o s.trace)

\* V4M bring-up: init_phtw's error is returned, the D-PHY setting's is not
rcsi2_start_receiver_v4m(e) ==
    IF rcsi2_get_active_lanes(e) # "ok"
        THEN Result(rcsi2_get_active_lanes(e), "lanes", "off", << >>)
    ELSE IF rcsi2_calc_mbps(e) # "ok"
        THEN Result(rcsi2_calc_mbps(e), "rate", "off", << >>)
    ELSE LET w == rcsi2_init_phtw(e)
             t == V4StaticSetting \o w.trace
         IN  IF w.ret # "ok" THEN Result(w.ret, w.fail, "off", t)
             ELSE IF cphy_connection THEN Result("EINVAL", "config", "off", t)
             ELSE LET s == rcsi2_d_phy_setting(e)
                  IN  Result("ok", s.fail, s.phy, t \o s.trace)

\* X5H bring-up: no lane query, fixed rate, no table, no polling
rcsi2_start_receiver_x5h(e) ==
    IF rcsi2_get_active_lanes(e) # "ok"
        THEN Result(rcsi2_get_active_lanes(e), "lanes", "off", << >>)
    ELSE IF rcsi2_calc_mbps(e) # "ok"
        THEN Result(rcsi2_calc_mbps(e), "rate", "off", << >>)
    ELSE Result("ok", "none", "up", << "reg_write" >>)

\* the variant dispatch at the head of rcsi2_start
StartReceiver(e) ==
    IF IsV4H THEN rcsi2_start_receiver_v4h(e)
    ELSE IF IsV4M THEN rcsi2_start_receiver_v4m(e)
    ELSE IF IsX5H THEN rcsi2_start_receiver_x5h(e)
    ELSE rcsi2_start_receiver(e)

\* step T8 at the tail of rcsi2_start: FRXM's force-RX bits cleared
FrxmRelease == IF IsV4H \/ IsV4M THEN << "frx_release" >> ELSE << >>

\* V4H, V4M and X5H read format->bpp without testing the lookup's result
DerefsNullFormat == (IsV4H \/ IsV4M \/ IsX5H) /\ ~mf_valid

\* the source's answer to s_stream(1) (csi2cam_start on X5H)
SourceEnable(a) ==
    IF IsX5H THEN a ELSE IF ~remote THEN "ENODEV" ELSE a

\* the bpp read through a NULL descriptor happens once the lane query passed;
\* the read faults in the kernel, which kills the task with the mutex held
NullDeref(e) == DerefsNullFormat /\ rcsi2_get_active_lanes(e) = "ok"

\* ------------------------------------------------------------ control flow

\* a mutex_lock that never waits
MutexAvailable_never_waits == TRUE

\* a mutex that the interrupt thread's ownership does not close
MutexAvailable_thread_unlocked == lock \notin Callers

\* mutex_lock(&priv->lock) returns only when nobody owns the mutex
MutexAvailable == lock = "free"

\* s_stream's test of the source: X5H has no V4L2 source to test
SourceMissing == ~IsX5H /\ ~remote

\* s_stream without the "stream_count == 0" test of its start branch
s_stream_branch_start_always(en, count) ==
    IF en THEN "start"
    ELSE IF ~en /\ count = 1 THEN "stop"
    ELSE "count"

\* s_stream with "stream_count >= 1" for "== 1" in its stop branch
s_stream_branch_stop_early(en, count) ==
    IF en /\ count = 0 THEN "start"
    ELSE IF ~en /\ count >= 1 THEN "stop"
    ELSE "count"

\* s_stream with "stream_count <= 1" for "== 0" in its start branch
s_stream_branch_start_again(en, count) ==
    IF en /\ count <= 1 THEN "start"
    ELSE IF ~en /\ count = 1 THEN "stop"
    ELSE "count"

\* s_stream's choice between rcsi2_start, rcsi2_stop and plain counting
s_stream_branch(en, count) ==
    IF en /\ count = 0 THEN "start"
    ELSE IF ~en /\ count = 1 THEN "stop"
    ELSE "count"

\* the statement "priv->stream_count += enable ? 1 : -1"
s_stream_count(en, count) == IF en THEN count + 1 ELSE count - 1

\* rcsi2_stop with its two calls exchanged
rcsi2_stop_order_source_first == << "stop_source", "stop_standby" >>

\* rcsi2_stop's two calls, in program order
rcsi2_stop_order == << "stop_standby", "stop_source" >>

\* rcsi2_start without the "if (ret)" after the receiver routine
AfterReceiver_unchecked(r) == "start_source"

\* where rcsi2_start goes once the receiver routine has returned r
AfterReceiver(r) == IF r # "ok" THEN "start_undo" ELSE "start_source"

\* where rcsi2_start goes once the source has answered r
AfterSource(r) == IF r # "ok" THEN "start_undo" ELSE "start_confirm"

\* the caller of rcsi2_stop continues: s_stream counts, the thread restarts
AfterStop(p) == IF p = IrqThread THEN "start_exit" ELSE "count"

\* an interrupt thread that tries rcsi2_start again when it failed
AfterStart_retry(p, r) ==
    IF p = IrqThread THEN (IF r # "ok" THEN "start_exit" ELSE "unlock")
    ELSE IF r # "ok" THEN "unlock" ELSE "count"

\* the caller of rcsi2_start continues: s_stream counts on success and
\* leaves on error, the thread only logs
AfterStart(p, r) ==
    IF p = IrqThread THEN "unlock" ELSE IF r # "ok" THEN "unlock" ELSE "count"

\* the position after position at of rcsi2_stop
StopNext(p, at) ==
    IF at = rcsi2_stop_order[1] THEN rcsi2_stop_order[2] ELSE AfterStop(p)

\* positions at which a task executes inside the mutex
Critical ==
    { "decide", "start_exit", "start_recv", "start_undo", "start_source",
      "start_confirm", "stop_standby", "stop_source", "count", "unlock", "oops" }

PcSet == Critical \cup { "idle", "lock" }

\* ------------------------------------------------------------------- state

TypeOK ==
    /\ info \in rcar_csi2_of_table
    /\ cphy_connection \in BOOLEAN
    /\ remote \in BOOLEAN
    /\ mf_valid \in BOOLEAN
    /\ lock \in Procs \cup {"free"}
    /\ stream_count \in Int
    /\ hw \in [standby : BOOLEAN, pm_usage : Int, phy : {"off", "up"},
               source_on : BOOLEAN]
    /\ pc \in [Procs -> PcSet]
    /\ enable \in [Callers -> BOOLEAN]
    /\ ret \in [Procs -> {"ok", "EINVAL", "ENODEV", "ERANGE", "ETIMEDOUT", "EIO"}]
    /\ thread_wake \in BOOLEAN
    /\ faults \in 0..MaxFaults
    /\ recoveries \in 0..MaxFaults
    /\ irq_under \in Procs \cup {"free", "none"}

\* no routine is run on its own
\* the argument record of a routine that takes none besides priv
NoArg == [none |-> 0]

NoJob ==
    [fn |-> "none", table |-> << >>, mbps |-> 0, values |-> << >>,
     code |-> 0, status |-> 0, err_status |-> 0, arg |-> NoArg]

NoOut == [ret |-> 0, sel |-> 0]

UnitOff ==
    /\ job = NoJob
    /\ upc = "off"
    /\ out = NoOut
    /\ reads = 0
    /\ idx = 0
    /\ wlog = << >>
    /\ last_read = {}
    /\ failed_at = 0
    /\ lp11_at = 0

\* rcsi2_probe: zeroed private data, stream_count = 0, nothing powered
Probed ==
    /\ remote = FALSE
    /\ mf_valid = FALSE
    /\ lock = "free"
    /\ stream_count = 0
    /\ hw = [standby |-> TRUE, pm_usage |-> 0, phy |-> "off", source_on |-> FALSE]
    /\ pc = [p \in Procs |-> "idle"]
    /\ enable = [p \in Callers |-> FALSE]
    /\ ret = [p \in Procs |-> "ok"]
    /\ thread_wake = FALSE
    /\ faults = 0
    /\ recoveries = 0
    /\ ops = [p \in Procs |-> << >>]
    /\ fail = [p \in Procs |-> "none"]
    /\ pre_count = [p \in Callers |-> 0]
    /\ run = NoRun
    /\ restart_failed = FALSE
    /\ irq_under = "none"

Init ==
    /\ info \in rcar_csi2_of_table
    /\ cphy_connection \in BOOLEAN
    /\ Probed
    /\ UnitOff

\* ----------------------------------------------------------------- s_stream

\* a task enters rcsi2_s_stream(sd, en) and blocks in mutex_lock
s_stream_call(p, en) ==
    /\ pc[p] = "idle"
    /\ \A i, j \in 1..Len(CallSlots) :
          i < j /\ CallSlots[j] = p => pc[CallSlots[i]] # "idle"
    /\ en => stream_count < MaxCount
    /\ ~en => stream_count > -MaxUnder
    /\ pc' = [pc EXCEPT ![p] = "lock"]
    /\ enable' = [enable EXCEPT ![p] = en]
    /\ UNCHANGED << cfg_vars, unit_vars, irq_under, remote, mf_valid, lock, stream_count, hw, ret,
                    thread_wake, hist_vars >>

\* mutex_lock returns: s_stream goes on to its tests, the thread to rcsi2_stop
mutex_lock(p) ==
    /\ pc[p] = "lock"
    /\ MutexAvailable
    /\ lock' = p
    /\ pc' = [pc EXCEPT ![p] = IF p = IrqThread THEN rcsi2_stop_order[1]
                                ELSE "decide"]
    /\ UNCHANGED << cfg_vars, unit_vars, irq_under, remote, mf_valid, stream_count, hw, enable, ret,
                    thread_wake, hist_vars >>

\* the source test and the branch on enable and stream_count
s_stream_decide(p) ==
    /\ pc[p] = "decide"
    /\ IF SourceMissing
       THEN /\ ret' = [ret EXCEPT ![p] = "ENODEV"]
            /\ pc' = [pc EXCEPT ![p] = "unlock"]
            /\ run' = NoRun
            /\ UNCHANGED pre_count
       ELSE LET b == s_stream_branch(enable[p], stream_count) IN
            /\ ret' = [ret EXCEPT ![p] = "ok"]
            /\ pc' = [pc EXCEPT ![p] =
                        IF b = "start" THEN "start_exit"
                        ELSE IF b = "stop" THEN rcsi2_stop_order[1]
                        ELSE "count"]
            /\ pre_count' = [pre_count EXCEPT ![p] = stream_count]
            /\ run' = IF ~enable[p] THEN NoRun
                      ELSE IF stream_count = 0
                          THEN << 0, IF b = "start" THEN 1 ELSE 0 >>
                      ELSE IF run[1] >= 0 /\ b = "start"
                          THEN << run[1], run[2] + 1 >>
                      ELSE run
    /\ UNCHANGED << cfg_vars, unit_vars, irq_under, remote, mf_valid, lock, stream_count, hw, enable,
                    thread_wake, faults, recoveries, ops, fail, restart_failed >>

\* priv->stream_count += enable ? 1 : -1
s_stream_update(p) ==
    /\ pc[p] = "count"
    /\ stream_count' = s_stream_count(enable[p], stream_count)
    /\ pc' = [pc EXCEPT ![p] = "unlock"]
    /\ run' = IF enable[p] /\ run[1] >= 0 THEN << run[1] + 1, run[2] >> ELSE run
    /\ UNCHANGED << cfg_vars, unit_vars, irq_under, remote, mf_valid, lock, hw, enable, ret,
                    thread_wake, faults, recoveries, ops, fail, pre_count,
                    restart_failed >>

\* mutex_unlock and return, of s_stream and of the thread alike
mutex_unlock(p) ==
    /\ pc[p] = "unlock"
    /\ lock' = "free"
    /\ pc' = [pc EXCEPT ![p] = "idle"]
    /\ ret' = [ret EXCEPT ![p] = "ok"]
    /\ fail' = [fail EXCEPT ![p] = "none"]
    /\ pre_count' = [q \in Callers |-> IF q = p THEN 0 ELSE pre_count[q]]
    /\ enable' = [q \in Callers |-> IF q = p THEN FALSE ELSE enable[q]]
    /\ restart_failed' = IF p \in Callers /\ enable[p] THEN FALSE
                         ELSE restart_failed
    /\ ops' = [ops EXCEPT ![p] = << >>]
    /\ UNCHANGED << cfg_vars, unit_vars, irq_under, remote, mf_valid, stream_count, hw,
                    thread_wake, faults, recoveries, run >>

\* --------------------------------------------------------------- rcsi2_start

\* rcsi2_exit_standby at the head of rcsi2_start
rcsi2_start_exit(p) ==
    /\ pc[p] = "start_exit"
    /\ hw' = rcsi2_exit_standby(hw)
    /\ pc' = [pc EXCEPT ![p] = "start_recv"]
    /\ ops' = [ops EXCEPT ![p] = Append(@, "exit_standby")]
    /\ UNCHANGED << cfg_vars, unit_vars, irq_under, remote, mf_valid, lock, stream_count, enable, ret,
                    thread_wake, faults, recoveries, fail, pre_count, run,
                    restart_failed >>

\* the variant's receiver routine, against what the environment answers
rcsi2_start_recv(p) ==
    /\ pc[p] = "start_recv"
    /\ \E e \in RecvEnv :
         IF NullDeref(e)
         THEN /\ pc' = [pc EXCEPT ![p] = "oops"]
              /\ UNCHANGED << hw, ret, fail, ops >>
         ELSE LET r == StartReceiver(e) IN
              /\ hw' = [hw EXCEPT !.phy = r.phy]
              /\ ret' = [ret EXCEPT ![p] = r.ret]
              /\ fail' = [fail EXCEPT ![p] = r.fail]
              /\ ops' = [ops EXCEPT ![p] = @ \o r.trace \o
                            << IF r.ret = "ok" THEN "receiver_ok"
                               ELSE "receiver_err" >>]
              /\ pc' = [pc EXCEPT ![p] = AfterReceiver(r.ret)]
    /\ UNCHANGED << cfg_vars, unit_vars, irq_under, remote, mf_valid, lock, stream_count, enable,
                    thread_wake, faults, recoveries, pre_count, run,
                    restart_failed >>

\* v4l2_subdev_call(priv->remote, video, s_stream, 1) or csi2cam_start
rcsi2_start_source(p) ==
    /\ pc[p] = "start_source"
    /\ \E a \in {"ok", "EIO"} :
         LET r == SourceEnable(a) IN
         /\ hw' = [hw EXCEPT !.source_on = IF r = "ok" THEN TRUE ELSE @]
         /\ ret' = [ret EXCEPT ![p] = r]
         /\ fail' = [fail EXCEPT ![p] = IF r # "ok" THEN "source" ELSE @]
         /\ pc' = [pc EXCEPT ![p] = AfterSource(r)]
    /\ ops' = [ops EXCEPT ![p] = Append(@, "source_on")]
    /\ UNCHANGED << cfg_vars, unit_vars, irq_under, remote, mf_valid, lock, stream_count, enable,
                    thread_wake, faults, recoveries, pre_count, run,
                    restart_failed >>

\* the error exits of rcsi2_start: rcsi2_enter_standby, return ret
rcsi2_start_undo(p) ==
    /\ pc[p] = "start_undo"
    /\ hw' = rcsi2_enter_standby(hw)
    /\ pc' = [pc EXCEPT ![p] = AfterStart(p, ret[p])]
    /\ restart_failed' = IF p = IrqThread THEN TRUE ELSE restart_failed
    /\ run' = IF p \in Callers THEN NoRun ELSE run
    /\ ops' = [ops EXCEPT ![p] = Append(@, "enter_standby")]
    /\ UNCHANGED << cfg_vars, unit_vars, irq_under, remote, mf_valid, lock, stream_count, enable, ret,
                    thread_wake, faults, recoveries, fail, pre_count >>

\* a tail of rcsi2_start that returns what the stop-state poll returned
ConfirmResult_checked(r) == r

\* rcsi2_start calls rcsi2_wait_phy_start_v4h as a statement: whatever the
\* poll returns, rcsi2_start goes on and returns 0
ConfirmResult(r) == "ok"

\* the tail of rcsi2_start: on V4H and V4M the stop-state poll, which sees
\* the stop state within its reads or returns -ETIMEDOUT, then the FRXM
\* release, return 0
rcsi2_start_confirm(p) ==
    /\ pc[p] = "start_confirm"
    /\ \E stopstate \in (IF IsV4H \/ IsV4M THEN BOOLEAN ELSE { TRUE }) :
         LET r == ConfirmResult(IF stopstate THEN "ok" ELSE "ETIMEDOUT") IN
         /\ ret' = [ret EXCEPT ![p] = r]
         /\ pc' = [pc EXCEPT ![p] = AfterStart(p, r)]
         /\ fail' = [fail EXCEPT ![p] = IF stopstate THEN @ ELSE "confirm"]
    /\ restart_failed' = IF p = IrqThread THEN FALSE ELSE restart_failed
    /\ ops' = [ops EXCEPT ![p] = @ \o FrxmRelease]
    /\ UNCHANGED << cfg_vars, unit_vars, irq_under, remote, mf_valid, lock, stream_count, hw, enable,
                    thread_wake, faults, recoveries, pre_count, run >>

\* ---------------------------------------------------------------- rcsi2_stop

\* rcsi2_enter_standby, as called by rcsi2_stop
rcsi2_stop_standby(p) ==
    /\ pc[p] = "stop_standby"
    /\ hw' = rcsi2_enter_standby(hw)
    /\ pc' = [pc EXCEPT ![p] = StopNext(p, "stop_standby")]
    /\ ops' = [ops EXCEPT ![p] = Append(@, "enter_standby")]
    /\ UNCHANGED << cfg_vars, unit_vars, irq_under, remote, mf_valid, lock, stream_count, enable, ret,
                    thread_wake, faults, recoveries, fail, pre_count, run,
                    restart_failed >>

\* v4l2_subdev_call(priv->remote, video, s_stream, 0) or csi2cam_stop; the
\* result is dropped, and no call is made on a NULL source
rcsi2_stop_source(p) ==
    /\ pc[p] = "stop_source"
    /\ hw' = [hw EXCEPT !.source_on = IF IsX5H \/ remote THEN FALSE ELSE @]
    /\ pc' = [pc EXCEPT ![p] = StopNext(p, "stop_source")]
    /\ ops' = [ops EXCEPT ![p] = Append(@, "source_off")]
    /\ UNCHANGED << cfg_vars, unit_vars, irq_under, remote, mf_valid, lock, stream_count, enable, ret,
                    thread_wake, faults, recoveries, fail, pre_count, run,
                    restart_failed >>


\* ---------------------------------------------------------------- interrupt

\* a first stage that takes priv->lock like the thread does
rcsi2_irq_takes_lock_too == TRUE

\* rcsi2_irq contains no mutex_lock
rcsi2_irq_takes_lock == FALSE

\* the immediate stage: INTSTATE and INTERRSTATE are read; a receiver held
\* in reset reports no status
rcsi2_irq ==
    \E status \in {0, 1}, err_status \in {0, 1} :
        /\ status # 0 => ~hw.standby
        /\ rcsi2_irq_takes_lock => MutexAvailable
        /\ IF rcsi2_irq_handler(status, err_status).ret # Irqreturn("IRQ_WAKE_THREAD")
           THEN UNCHANGED << thread_wake, faults, irq_under >>
           ELSE /\ faults < MaxFaults
                /\ thread_wake' = TRUE
                /\ faults' = faults + 1
                /\ irq_under' = lock
        /\ UNCHANGED << cfg_vars, unit_vars, remote, mf_valid, lock, stream_count, hw, pc,
                        enable, ret, recoveries, ops, fail, pre_count, run,
                        restart_failed >>

\* the handler thread runs rcsi2_irq_thread once per wake-up request
rcsi2_irq_thread ==
    /\ pc[IrqThread] = "idle"
    /\ thread_wake
    /\ thread_wake' = FALSE
    /\ recoveries' = recoveries + 1
    /\ pc' = [pc EXCEPT ![IrqThread] = "lock"]
    /\ irq_under' = "none"
    /\ UNCHANGED << cfg_vars, unit_vars, remote, mf_valid, lock, stream_count, hw, enable,
                    ret, faults, ops, fail, pre_count, run, restart_failed >>

\* ------------------------------------------------------ source and format

\* the async notifier binds the source (never registered on X5H)
rcsi2_notify_bound ==
    /\ ~IsX5H
    /\ ~remote
    /\ \E pad_found \in BOOLEAN : remote' = pad_found
    /\ UNCHANGED << cfg_vars, unit_vars, irq_under, mf_valid, lock, stream_count, hw, pc, enable, ret,
                    thread_wake, hist_vars >>

rcsi2_notify_unbind ==
    /\ ~IsX5H
    /\ remote
    /\ remote' = FALSE
    /\ UNCHANGED << cfg_vars, unit_vars, irq_under, mf_valid, lock, stream_count, hw, pc, enable, ret,
                    thread_wake, hist_vars >>

\* set_fmt replaces an unknown code by the first table entry; only the
\* active format is stored in priv->mf
rcsi2_set_pad_format ==
    /\ \E which \in {"ACTIVE", "TRY"} :
         mf_valid' = IF which = "ACTIVE" THEN TRUE ELSE mf_valid
    /\ UNCHANGED << cfg_vars, unit_vars, irq_under, remote, lock, stream_count, hw, pc, enable, ret,
                    thread_wake, hist_vars >>

\* ------------------------------------------------------------ specification

Next ==
    \/ \E p \in Callers, en \in BOOLEAN : s_stream_call(p, en)
    \/ \E p \in Procs : mutex_lock(p)
    \/ \E p \in Callers : s_stream_decide(p)
    \/ \E p \in Callers : s_stream_update(p)
    \/ \E p \in Procs : mutex_unlock(p)
    \/ \E p \in Procs : rcsi2_start_exit(p)
    \/ \E p \in Procs : rcsi2_start_recv(p)
    \/ \E p \in Procs : rcsi2_start_source(p)
    \/ \E p \in Procs : rcsi2_start_undo(p)
    \/ \E p \in Procs : rcsi2_start_confirm(p)
    \/ \E p \in Procs : rcsi2_stop_standby(p)
    \/ \E p \in Procs : rcsi2_stop_source(p)
    \/ rcsi2_irq
    \/ rcsi2_irq_thread
    \/ rcsi2_notify_bound
    \/ rcsi2_notify_unbind
    \/ rcsi2_set_pad_format

Spec == Init /\ [][Next]_vars

\* a step of task p inside rcsi2_s_stream or rcsi2_irq_thread, other than
\* the return of mutex_lock
TaskStep(p) ==
    \/ mutex_unlock(p)
    \/ rcsi2_start_exit(p)
    \/ rcsi2_start_recv(p)
    \/ rcsi2_start_source(p)
    \/ rcsi2_start_undo(p)
    \/ rcsi2_start_confirm(p)
    \/ rcsi2_stop_standby(p)
    \/ rcsi2_stop_source(p)
    \/ (p \in Callers /\ s_stream_decide(p))
    \/ (p \in Callers /\ s_stream_update(p))

\* Fair scheduling: a task that can run does run (every poll of the driver
\* is a bounded loop and the source's calls return), and a task blocked in
\* mutex_lock gets the mutex if it is released again and again
FairSpec ==
    /\ Spec
    /\ \A p \in Procs : WF_vars(TaskStep(p)) /\ SF_vars(mutex_lock(p))

\* ------------------------------------------- function-level specification

LookupJobs ==
    [fn : LookupFns, table : AscendingTables, mbps : Targets,
     values : { << >> }, code : { 241 }, status : { 0 }, err_status : { 0 },
     arg : { NoArg }]

ArrayJobs ==
    [fn : { "rcsi2_phtw_write_array" }, table : { << >> }, mbps : { 0 },
     values : PhtwArrays, code : { 0 }, status : { 0 }, err_status : { 0 },
     arg : { NoArg }]

IrqJobs ==
    [fn : { "rcsi2_irq" }, table : { << >> }, mbps : { 0 }, values : { << >> },
     code : { 0 }, status : 0..MaxReg, err_status : 0..MaxReg, arg : { NoArg }]

\* the argument of a routine run
RoutineJob(f, args) ==
    [fn : { f }, table : { << >> }, mbps : { 0 }, values : { << >> },
     code : { 0 }, status : { 0 }, err_status : { 0 }, arg : args]

\* rcsi2_parse_v4l2 on endpoints as v4l2_fwnode_endpoint_parse hands them
\* over: port 0 endpoint 0 with every bus type, lane count and lane list,
\* and one endpoint at each other position; the other routines on the
\* arguments and answers they can meet (priv->lanes is 0 on a device probed
\* without an endpoint, which never gets a source bound)
RoutineJobs ==
    RoutineJob("rcsi2_parse_v4l2",
        [port : {0}, id : {0}, bus_type : {"DPHY", "CPHY", "PARALLEL"},
         num_data_lanes : 0..5, data_lanes : [1..4 -> 0..5]]
        \cup [port : {0, 1}, id : {0, 1}, bus_type : {"DPHY"},
              num_data_lanes : {4}, data_lanes : { [i \in 1..4 |-> i] }])
    \cup RoutineJob("rcsi2_start_receiver",
        [datatype : { f.datatype : f \in rcar_csi2_formats },
         num_channels : 0..4, no_use_vdt : BOOLEAN,
         field : {"NONE", "ALTERNATE", "INTERLACED", "SEQ_TB"},
         height : {239, 240, 241, 480},
         phy : { 0, -Errno("ERANGE") }])
    \cup RoutineJob("rcsi2_calc_mbps",
        [bpp : { f.bpp : f \in rcar_csi2_formats }, lanes : 1..4,
         rate : { 0, 1, 999999, 13500000, 27000000, 74250000, 83333333 },
         remote : BOOLEAN, ctrl : BOOLEAN])
    \cup RoutineJob("rcsi2_init_phtw_v4m", [osc_freq : { 425, 374, 264 }])
    \cup RoutineJob("rcsi2_c_phy_lookup",
                    [data_rate : { 0, 79, 80, 81, 99, 100, 101, 1000, 3399,
                                   3400, 3499, 3500, 3501, 4000 }])
    \cup RoutineJob("rcsi2_c_phy_setting",
        [pin_swap : BOOLEAN, order : [1..3 -> 0..6]])
    \cup RoutineJob("rcsi2_enter_standby",
        [inten : { {}, {27, 4, 3} }, reset_clears : BOOLEAN])
    \cup RoutineJob("rcsi2_get_active_lanes",
        { a \in [lanes : 0..4, remote : BOOLEAN,
                 query : { 0, -Errno("ENOIOCTLCMD"), -Errno("EINVAL") },
                 type : { "DPHY", "CPHY", "PARALLEL" },
                 flags : SUBSET (1..4)] :
            a.lanes = 0 => ~a.remote })
    \cup RoutineJob("rcsi2_start_receiver_v4h",
        [mbps : { 0, 1, 2, 3, 27, 28, 29, 445, 1782, 2500, 4500 },
         cphy : BOOLEAN])

\* the stop-state polls, for every number of active lanes
StopStateJobs ==
    RoutineJob("rcsi2_wait_phy_start", [lanes : 1..4])
    \cup RoutineJob("rcsi2_wait_phy_start_v4h", [lanes : 1..4])

Jobs == LookupJobs \cup ArrayJobs \cup IrqJobs \cup RoutineJobs
        \cup StopStateJobs

\* the descriptors a job is run on: one for a routine that does not look
\* at the variant
JobInfos(j) ==
    IF j.fn \in { "rcsi2_parse_v4l2", "rcsi2_start_receiver" }
    THEN { rcar_csi2_info_r8a7795 }
    ELSE IF j.fn = "rcsi2_wait_phy_start"
    THEN { i \in rcar_csi2_of_table :
              i.features \notin { "R8A779G0", "R8A779H0", "R8A78000" } }
    ELSE IF j.fn = "rcsi2_wait_phy_start_v4h"
    THEN { rcar_csi2_info_r8a779g0, rcar_csi2_info_r8a779h0 }
    ELSE IF j.fn = "rcsi2_init_phtw_v4m"
    THEN { rcar_csi2_info_r8a779h0 }
    ELSE IF j.fn \in { "rcsi2_start_receiver_v4h", "rcsi2_c_phy_setting",
                      "rcsi2_c_phy_lookup" }
    THEN { rcar_csi2_info_r8a779g0 }
    ELSE rcar_csi2_of_table

\* one routine is called on a probed device
UnitInit ==
    /\ job \in Jobs
    /\ info \in JobInfos(job)
    /\ cphy_connection = FALSE
    /\ Probed
    /\ upc = "call"
    /\ out = NoOut
    /\ reads = 0
    /\ idx = 1
    /\ wlog = << >>
    /\ last_read = {}
    /\ failed_at = 0
    /\ lp11_at = 0

\* rcsi2_set_phypll / rcsi2_get_osc_freq / rcsi2_phtw_write_mbps up to the
\* register write
lookup_call ==
    /\ upc = "call"
    /\ job.fn \in LookupFns
    /\ LET r == CASE job.fn = "rcsi2_set_phypll" ->
                       rcsi2_set_phypll(job.table, job.mbps)
                  [] job.fn = "rcsi2_get_osc_freq" ->
                       rcsi2_get_osc_freq(job.table, job.mbps)
                  [] job.fn = "rcsi2_phtw_write_mbps" ->
                       rcsi2_phtw_write_mbps(job.table, job.mbps, job.code)
       IN /\ out' = [ret |-> r.ret, sel |-> r.sel]
          /\ wlog' = r.writes
          /\ IF job.fn = "rcsi2_phtw_write_mbps" /\ r.sel # 0
             THEN /\ last_read' = { "DWEN", "CWEN" }
                  /\ upc' = IF IsX5H THEN "done" ELSE "poll"
             ELSE /\ last_read' = last_read
                  /\ upc' = "done"
    /\ UNCHANGED << cfg_vars, drv_vars, job, reads, idx, failed_at, lp11_at >>

\* rcsi2_phtw_write_array: the loop test and the request of the next pair
rcsi2_phtw_write_array ==
    /\ upc = "call"
    /\ job.fn = "rcsi2_phtw_write_array"
    /\ LET v == job.values[idx] IN
       IF v.data = 0 /\ v.code = 0
       THEN /\ upc' = "done"
            /\ out' = [out EXCEPT !.ret = 0]
            /\ UNCHANGED << wlog, reads, idx, last_read >>
       ELSE /\ wlog' = Append(wlog, [reg |-> "PHTW_REG", val |-> v])
            /\ reads' = 0
            /\ last_read' = { "DWEN", "CWEN" }
            /\ IF IsX5H
               THEN /\ idx' = idx + 1
                    /\ upc' = ArrayAfterWrite(0)
               ELSE /\ idx' = idx
                    /\ upc' = "poll"
            /\ out' = out
    /\ UNCHANGED << cfg_vars, drv_vars, job, failed_at, lp11_at >>

\* rcsi2_phtw_write: one pass of the polling loop, with the return that
\* follows a clear read or the last pass
rcsi2_phtw_write ==
    /\ upc = "poll"
    /\ PollAgain(reads)
    /\ \E bits \in SUBSET { "DWEN", "CWEN" } :
         LET r == IF bits = {} THEN 0
                  ELSE IF PollAgain(reads + 1) THEN 1
                  ELSE -Errno("ETIMEDOUT")
         IN /\ reads' = reads + 1
            /\ last_read' = bits
            /\ IF r = 1
               THEN UNCHANGED << upc, out, idx, failed_at >>
               ELSE /\ out' = [out EXCEPT !.ret = r]
                    /\ failed_at' = IF r # 0 /\ failed_at = 0
                                    THEN Len(wlog) ELSE failed_at
                    /\ IF job.fn = "rcsi2_phtw_write_array"
                       THEN /\ upc' = ArrayAfterWrite(r)
                            /\ idx' = IF ArrayAfterWrite(r) = "call"
                                      THEN idx + 1 ELSE idx
                       ELSE /\ upc' = "done"
                            /\ idx' = idx
    /\ UNCHANGED << cfg_vars, drv_vars, job, wlog, lp11_at >>

\* rcsi2_irq on the register values of the job
irq_call ==
    /\ upc = "call"
    /\ job.fn = "rcsi2_irq"
    /\ LET r == rcsi2_irq_handler(job.status, job.err_status)
       IN /\ out' = [out EXCEPT !.ret = r.ret]
          /\ wlog' = r.writes
    /\ upc' = "done"
    /\ UNCHANGED << cfg_vars, drv_vars, job, reads, idx, last_read, failed_at,
                    lp11_at >>

\* a routine without a polling loop, run on the arguments of the job
routine_call ==
    /\ upc = "call"
    /\ job \in RoutineJobs
    /\ LET r == CASE job.fn = "rcsi2_parse_v4l2" -> rcsi2_parse_v4l2(job.arg)
                  [] job.fn = "rcsi2_start_receiver" ->
                       rcsi2_start_receiver_regs(job.arg)
                  [] job.fn = "rcsi2_start_receiver_v4h" ->
                       [ret |-> v4h_data_rate(job.arg.mbps, job.arg.cphy)]
                  [] job.fn = "rcsi2_init_phtw_v4m" ->
                       rcsi2_init_phtw_v4m_step32(job.arg)
                  [] job.fn = "rcsi2_c_phy_lookup" ->
                       rcsi2_c_phy_lookup(job.arg)
                  [] job.fn = "rcsi2_c_phy_setting" ->
                       rcsi2_c_phy_pin_swap(job.arg)
                  [] job.fn = "rcsi2_enter_standby" ->
                       rcsi2_enter_standby_steps(job.arg)
                  [] job.fn = "rcsi2_get_active_lanes" ->
                       rcsi2_get_active_lanes_of(job.arg)
                  [] job.fn = "rcsi2_calc_mbps" ->
                       [ret |-> rcsi2_calc_mbps_of(job.arg)]
       IN /\ out' = [ret |-> r.ret, sel |-> r]
          /\ wlog' = IF "writes" \in DOMAIN r THEN r.writes ELSE << >>
    /\ upc' = "done"
    /\ UNCHANGED << cfg_vars, drv_vars, job, reads, idx, last_read, failed_at,
                    lp11_at >>

\* the stop-state bit of data lane i: PHDLM_REG bit i, ST_STOPSTATE_i; the
\* clock lane's (PHCLM_STOPSTATECKL, ST_STOPSTATE_DCK) is "STOPSTATE_CK"
StopStateBit(i) == << "STOPSTATE_0", "STOPSTATE_1", "STOPSTATE_2", "STOPSTATE_3" >>[i + 1]

\* the bits a poll waits for: the clock lane and lane_mask in
\* rcsi2_wait_phy_start, the clock lane and lanes 0, 1 and 2 in
\* rcsi2_wait_phy_start_v4h
StopStateMask(fn, lanes) ==
    { "STOPSTATE_CK" } \cup
    { StopStateBit(i) :
        i \in IF fn = "rcsi2_wait_phy_start_v4h" THEN 0..2 ELSE 0..(lanes - 1) }

\* the reads a poll makes before it gives up: "timeout = 0; timeout <= 20"
\* and "timeout = 10; timeout > 0"
StopStateReads(fn) == IF fn = "rcsi2_wait_phy_start_v4h" THEN 10 ELSE 21

\* rcsi2_wait_phy_start and rcsi2_wait_phy_start_v4h: one pass of the loop,
\* with the return that follows a read showing the awaited bits or the
\* last pass
rcsi2_wait_phy_start ==
    /\ upc \in { "call", "stopstate" }
    /\ job \in StopStateJobs
    /\ \E status \in SUBSET ({ "STOPSTATE_CK" } \cup { StopStateBit(i) : i \in 0..3 }) :
         /\ reads' = reads + 1
         /\ last_read' = status
         /\ lp11_at' = IF lp11_at = 0 /\ { "STOPSTATE_CK" } \subseteq status
                           /\ \A i \in 0..(job.arg.lanes - 1) :
                                 StopStateBit(i) \in status
                        THEN reads + 1 ELSE lp11_at
         /\ IF StopStateMask(job.fn, job.arg.lanes) \subseteq status
            THEN /\ out' = [out EXCEPT !.ret = 0]
                 /\ upc' = "done"
            ELSE IF reads + 1 >= StopStateReads(job.fn)
            THEN /\ out' = [out EXCEPT !.ret = -Errno("ETIMEDOUT")]
                 /\ upc' = "done"
            ELSE /\ out' = out
                 /\ upc' = "stopstate"
    /\ UNCHANGED << cfg_vars, drv_vars, job, idx, wlog, failed_at >>

UnitNext ==
    \/ lookup_call
    \/ rcsi2_phtw_write_array
    \/ rcsi2_phtw_write
    \/ irq_call
    \/ routine_call
    \/ rcsi2_wait_phy_start

UnitSpec == UnitInit /\ [][UnitNext]_vars

\* ------------------------------------------------------------------ helpers

\* how often x occurs in the sequence s
Occurrences(s, x) == Cardinality({ i \in DOMAIN s : s[i] = x })

\* the positions of x in the sequence s
Positions(s, x) == { i \in DOMAIN s : s[i] = x }

AllIdle == \A p \in Procs : pc[p] = "idle"

\* ------------------------------------------------------------------- claims

\* C1: N >= 1 consecutive start() calls from stream count 0, with a bound
\* source, a bring-up that succeeds and no stop() in between, have run
\* rcsi2_start exactly once and leave stream_count equal to N.
C1_StartsBringUpOnce ==
    run[1] >= 1 => run[2] = 1 /\ stream_count = run[1]

\* two start() calls have returned and the count is 2
C1_Witness ==
    run = << 2, 1 >> /\ stream_count = 2 /\ AllIdle

C3_CountNeverNegative == stream_count >= 0

\* C4: when a step of a start() that found the count at 0 has failed (lane
\* query, rate, calibration, polling timeout, source enable), the call
\* returns an error, stream_count is still 0 and the receiver is back in
\* standby.
C4_FailedStartUndone ==
    \A p \in Callers :
        pc[p] = "unlock" /\ enable[p] /\ pre_count[p] = 0 /\ fail[p] # "none" =>
            ret[p] # "ok" /\ stream_count = 0 /\ hw.standby

\* C5: while the controller lock is free, the receiver is out of standby if
\* and only if stream_count > 0.
C5_ActiveIffCounted ==
    lock = "free" => (~hw.standby <=> stream_count > 0)

\* C6: at most one task is inside the locked region (s_stream's tests and
\* count update, rcsi2_start, rcsi2_stop), and that task owns the lock.
C6_OneSequenceInFlight ==
    /\ \A p, q \in Procs : pc[p] \in Critical /\ pc[q] \in Critical => p = q
    /\ \A p \in Procs : pc[p] \in Critical => lock = p

\* a start() is inside the receiver routine while another call and the
\* interrupt thread wait for the lock
C6_Witness ==
    /\ pc["c1"] = "start_recv"
    /\ pc["c2"] = "lock"
    /\ pc[IrqThread] = "lock"

\* C7: the thread runs no more often than faults were signalled; once the
\* single fault is handled it has run exactly once; one run is rcsi2_stop
\* once, then rcsi2_start once; a failed restart ends in standby.
C7_OneRecoveryPerFault ==
    /\ recoveries <= faults
    /\ faults = 1 /\ pc[IrqThread] = "idle" /\ ~thread_wake => recoveries = 1
    /\ pc[IrqThread] = "unlock" =>
          /\ Occurrences(ops[IrqThread], "source_off") = 1
          /\ Occurrences(ops[IrqThread], "exit_standby") = 1
          /\ \A i \in Positions(ops[IrqThread], "source_off") :
                \A j \in Positions(ops[IrqThread], "exit_standby") : i < j
          /\ ret[IrqThread] # "ok" => hw.standby

\* the one recovery of the one fault is about to return, its restart failed
C7_Witness ==
    /\ faults = 1 /\ recoveries = 1 /\ ~thread_wake
    /\ pc[IrqThread] = "unlock" /\ ret[IrqThread] # "ok"
    /\ hw.standby

\* C8: the first start() to return success after a failed restart leaves
\* the receiver out of standby.
C8_StartAfterFailedRestart ==
    \A p \in Callers :
        pc[p] = "unlock" /\ enable[p] /\ ret[p] = "ok" /\ restart_failed =>
            ~hw.standby

\* C9 as claimed: a stop() from count 1 stops the source first and enters
\* standby afterwards.
C9_SourceStoppedFirst ==
    \A p \in Callers :
        pc[p] = "unlock" /\ ~enable[p] /\ ret[p] = "ok" /\ pre_count[p] = 1 =>
            ops[p] = << "source_off", "enter_standby" >>

\* C9 as amended: a stop() from count 1 enters standby first and tells the
\* source to stop afterwards.
C9_StandbyBeforeSourceStop ==
    \A p \in Callers :
        pc[p] = "unlock" /\ ~enable[p] /\ ret[p] = "ok" /\ pre_count[p] = 1 =>
            ops[p] = << "enter_standby", "source_off" >>

\* a stop() from count 1 has put the receiver in standby, the source still
\* streams and is about to be told to stop
C9_Witness ==
    \E p \in Callers :
        /\ pc[p] = "stop_source" /\ pre_count[p] = 1
        /\ hw.standby /\ hw.source_on

\* C10: within a bring-up the source is enabled only directly after the
\* receiver routine returned success, and never after it returned an error.
C10_SourceAfterBringup ==
    \A p \in Procs :
        /\ \A i \in Positions(ops[p], "source_on") :
              i > 1 /\ ops[p][i - 1] = "receiver_ok"
        /\ \A i \in Positions(ops[p], "receiver_err") :
              \A j \in Positions(ops[p], "source_on") : j < i

\* a start() from count 0 has enabled the source after a good bring-up
C10_Witness ==
    \E p \in Callers :
        /\ pc[p] = "start_confirm" /\ pre_count[p] = 0
        /\ Occurrences(ops[p], "receiver_ok") = 1
        /\ ops[p][Len(ops[p])] = "source_on"
        /\ hw.source_on

\* C15: when the calibration-ready bit was not seen within the 10 reads of
\* a PHY setting, the start() that found the count at 0 returns the timeout,
\* has not enabled the source, leaves stream_count at 0 and the receiver in
\* standby.
C15_ReadyTimeoutAborts ==
    \A p \in Callers :
        pc[p] = "unlock" /\ enable[p] /\ pre_count[p] = 0 /\ fail[p] = "ready" =>
            /\ ret[p] = "ETIMEDOUT"
            /\ Occurrences(ops[p], "source_on") = 0
            /\ stream_count = 0
            /\ hw.standby

\* a speed lookup of p's bring-up met a speed above its table
SpeedOutOfRange(p) ==
    Occurrences(ops[p], "range_error") + Occurrences(ops[p], "range_missed") > 0

\* C16: when the computed link speed lies outside a table of the variant,
\* the start() that found the count at 0 returns the unsupported-speed error
\* and the lookup came before every register write of that bring-up.
C16_RangeErrorBeforeWrites ==
    \A p \in Callers :
        pc[p] = "unlock" /\ enable[p] /\ pre_count[p] = 0 /\ SpeedOutOfRange(p) =>
            /\ ret[p] = "ERANGE"
            /\ Occurrences(ops[p], "range_missed") = 0
            /\ \A i \in Positions(ops[p], "reg_write") :
                  \A j \in Positions(ops[p], "range_error") : j < i

\* C17: under fair scheduling every start(), stop() and recovery that waits
\* for the lock eventually acquires it, terminates and has released it.
C17_EveryRequestReturns ==
    \A p \in Procs : (pc[p] = "lock") ~> (pc[p] = "idle" /\ lock # p)

\* an execution of rcsi2_irq that returns IRQ_WAKE_THREAD
IrqWake == rcsi2_irq /\ faults' = faults + 1

\* C19: rcsi2_irq never waits for priv->lock (it can run to its end whoever
\* owns the lock) and an execution of it leaves the lock, stream_count, the
\* standby state and every task's position as they were.
C19_IrqNeverLocks ==
    [][ /\ (~hw.standby /\ faults < MaxFaults) => ENABLED IrqWake
        /\ faults' # faults =>
              /\ lock' = lock /\ stream_count' = stream_count
              /\ hw' = hw /\ pc' = pc ]_vars

\* rcsi2_irq has returned IRQ_WAKE_THREAD while the start() of c1 owned the
\* lock, and that start() still owns it
C19_Witness ==
    /\ irq_under = "c1" /\ lock = "c1" /\ thread_wake
    /\ pc["c1"] = "start_confirm" /\ enable["c1"]

\* C20 as claimed: whenever a bring-up has released the force-RX overrides,
\* the source's stream-enable had been called before and the source streams.
C20_ReleaseAfterSource ==
    \A p \in Procs :
        \A i \in Positions(ops[p], "frx_release") :
            /\ \E j \in Positions(ops[p], "source_on") : j < i
            /\ hw.source_on

\* C20 as amended: V4H and V4M release FRXM directly after the source's
\* stream-enable returned success; the routine of the variants with
\* PHYFRX_REG (V3U) releases it after it saw the stop state, before the
\* source's stream-enable is called. The overrides were set earlier in the
\* same bring-up in both cases.
C20_ReleaseByVariant ==
    \A p \in Procs :
        \A i \in Positions(ops[p], "frx_release") :
            /\ \E j \in Positions(ops[p], "frx_set") : j < i
            /\ IF IsV4H \/ IsV4M
               THEN i > 1 /\ ops[p][i - 1] = "source_on" /\ hw.source_on
               ELSE /\ info.has_phyfrx_reg
                    /\ \A j \in Positions(ops[p], "source_on") : i < j

\* a V4H or V4M start() has released FRXM after the source began to stream
C20_Witness ==
    \E p \in Callers :
        /\ IsV4H \/ IsV4M
        /\ pc[p] = "count" /\ enable[p] /\ hw.source_on
        /\ Occurrences(ops[p], "frx_set") = 1
        /\ ops[p][Len(ops[p])] = "frx_release"

\* ---------------------------------------- claims on the function-level runs

Abs(x) == IF x < 0 THEN -x ELSE x

\* the entry nearest to mbps, the lower one of two equally near entries
Nearest(t, mbps) ==
    CHOOSE i \in Entries(t) :
        \A j \in Entries(t) :
            \/ Abs(t[i].mbps - mbps) < Abs(t[j].mbps - mbps)
            \/ Abs(t[i].mbps - mbps) = Abs(t[j].mbps - mbps) /\ i <= j

\* a lookup has made its selection
LookupDone == job.fn \in LookupFns /\ upc # "call"

\* the table value the lookup returned or wrote, -1 when there is none
SelectedValue ==
    CASE job.fn = "rcsi2_get_osc_freq" -> out.ret
      [] job.fn = "rcsi2_set_phypll" ->
            IF wlog = << >> THEN -1 ELSE wlog[1].val
      [] job.fn = "rcsi2_phtw_write_mbps" ->
            IF wlog = << >> THEN -1 ELSE wlog[1].val.data

\* C11: for a target inside the range of an ascending table, each of the
\* three lookups selects the entry nearest to the target, the lower entry
\* when two are equally near, and returns or writes that entry's value.
C11_NearestLowerOnTie ==
    LookupDone /\ FirstMbps(job.table) <= job.mbps
               /\ job.mbps <= LastMbps(job.table) =>
        /\ out.sel = Nearest(job.table, job.mbps)
        /\ SelectedValue = job.table[out.sel].reg

\* table (90, 0x10), (100, 0x20), (110, 0x30), target 95: rcsi2_set_phypll
\* has written 0x10
C11_Witness ==
    /\ job.fn = "rcsi2_set_phypll"
    /\ job.table = SpeedTable({ 90, 100, 110 })
    /\ job.mbps = 95
    /\ upc = "done"
    /\ out.sel = 1
    /\ wlog = << [reg |-> IF IsV4M THEN "V4M_PHYPLL" ELSE "PHYPLL_REG", val |-> 16] >>

\* C12: each lookup selects the first entry for a target below the first
\* threshold, and for a target above the last threshold returns -ERANGE with
\* no entry selected and no register written.
C12_EdgesOfRange ==
    LookupDone =>
        /\ job.mbps < FirstMbps(job.table) =>
              out.sel = 1 /\ SelectedValue = job.table[1].reg
        /\ job.mbps > LastMbps(job.table) =>
              out.ret = -Errno("ERANGE") /\ out.sel = 0 /\ wlog = << >>

\* an indirect write has been requested in the current run
WriteIssued == job.fn \in { "rcsi2_phtw_write_array", "rcsi2_phtw_write_mbps" }
               /\ wlog # << >>

\* C13: once an indirect write of rcsi2_phtw_write_array has timed out, the
\* array run is over with -ETIMEDOUT as its return value, and the write that
\* timed out is the last one issued.
C13_ArrayStopsAtTimeout ==
    job.fn = "rcsi2_phtw_write_array" /\ failed_at > 0 =>
        /\ upc = "done"
        /\ out.ret = -Errno("ETIMEDOUT")
        /\ Len(wlog) = failed_at
        /\ idx = failed_at

\* the first of two pairs timed out: one write issued, the second pair never
C13_Witness ==
    /\ job.fn = "rcsi2_phtw_write_array"
    /\ Len(job.values) = 3
    /\ job.values[2] # [data |-> 0, code |-> 0]
    /\ upc = "done"
    /\ out.ret = -Errno("ETIMEDOUT")
    /\ failed_at = 1
    /\ wlog = << [reg |-> "PHTW_REG", val |-> job.values[1]] >>

\* C14: rcsi2_phtw_write reads PHTW_REG at most 21 times per request; it
\* keeps polling only while every read so far showed an enable bit set; it
\* returns 0 after a clear read and -ETIMEDOUT exactly when 21 reads were made
\* and the last one still showed a bit set.
C14_PollBound ==
    /\ reads <= PhtwMaxTimeout + 1
    /\ upc = "poll" => reads <= PhtwMaxTimeout /\ last_read # {}
    /\ WriteIssued /\ upc # "poll" =>
          /\ failed_at > 0 => reads = PhtwMaxTimeout + 1 /\ last_read # {}
          /\ reads = PhtwMaxTimeout + 1 /\ last_read # {} => failed_at > 0
          /\ failed_at = 0 => last_read = {} \/ (IsX5H /\ reads = 0)

\* the 21st read still showed PHTW_CWEN set: the write returned -ETIMEDOUT
C14_Witness ==
    /\ job.fn = "rcsi2_phtw_write_mbps"
    /\ upc = "done"
    /\ reads = PhtwMaxTimeout + 1
    /\ last_read = { "CWEN" }
    /\ out.ret = -Errno("ETIMEDOUT")

\* the run of rcsi2_irq has returned
IrqDone == job.fn = "rcsi2_irq" /\ upc = "done"

\* C18: rcsi2_irq with status 0 writes nothing and does not wake the thread;
\* with a non-zero status it first writes that status back to INTSTATE_REG;
\* it writes the error status back to INTERRSTATE_REG and returns
\* IRQ_WAKE_THREAD exactly when status and error status are both non-zero.
C18_IrqStage ==
    IrqDone =>
        /\ job.status = 0 =>
              wlog = << >> /\ out.ret # Irqreturn("IRQ_WAKE_THREAD")
        /\ job.status # 0 =>
              /\ Len(wlog) >= 1
              /\ wlog[1] = [reg |-> "INTSTATE_REG", val |-> job.status]
        /\ (job.status # 0 /\ job.err_status # 0) <=>
              /\ Len(wlog) = 2
              /\ wlog[2] = [reg |-> "INTERRSTATE_REG", val |-> job.err_status]
        /\ (job.status # 0 /\ job.err_status # 0) <=>
              out.ret = Irqreturn("IRQ_WAKE_THREAD")
        /\ Len(wlog) <= 2

\* rcsi2_irq read a status without an error status: one write, no wake-up
C18_Witness ==
    /\ IrqDone /\ job.status = MaxReg /\ job.err_status = 0
    /\ Len(wlog) = 1 /\ out.ret = Irqreturn("IRQ_HANDLED")

\* the routine f has returned
Returned(f) == job.fn = f /\ upc = "done"

\* C21: a lane-swap configuration accepted by rcsi2_parse_v4l2 is a
\* permutation of the physical lanes 1..4: its four entries are within
\* 1..4 and pairwise distinct.
C21_LaneSwapPermutation ==
    Returned("rcsi2_parse_v4l2") /\ out.ret = 0 =>
        /\ \A i \in 1..4 : out.sel.lane_swap[i] \in 1..4
        /\ \A i, j \in 1..4 : i # j => out.sel.lane_swap[i] # out.sel.lane_swap[j]

Half(r, h) == { b - 16 * h : b \in { c \in r : c \div 16 = h } }

\* C23: the mapping word of channel i < num_channels (virtual channel i,
\* enable bit 15, data-type enable bit 6, data type in bits 5..0) is half
\* i % 2 of the first mapping register for i < 2 and of the second for
\* i >= 2; the halves of channels at or above num_channels are 0, so no
\* word overlaps another; the registers are written with these values.
C23_ChannelPacking ==
    Returned("rcsi2_start_receiver") =>
        /\ \A i \in 0..3 :
              Half(IF i < 2 THEN out.sel.vcdt ELSE out.sel.vcdt2, i % 2)
                = IF i < job.arg.num_channels
                  THEN { 15, 6 } \cup { 8 + b : b \in Bits(i) }
                       \cup Bits(job.arg.datatype)
                  ELSE {}
        /\ \A k \in 1..Len(wlog) :
              /\ wlog[k].reg = "VCDT_REG" => wlog[k].val = out.sel.vcdt
              /\ wlog[k].reg = "VCDT2_REG" => wlog[k].val = out.sel.vcdt2
        /\ ~job.arg.no_use_vdt => Len(wlog) > 0 /\ wlog[1].reg = "VCDT_REG"

\* four channels of data type 0x2b: both mapping registers are written
C23_Witness ==
    /\ Returned("rcsi2_start_receiver")
    /\ job.arg.num_channels = 4 /\ job.arg.datatype = 43
    /\ Len(wlog) = 3 /\ wlog[2].reg = "VCDT2_REG"
    /\ Half(wlog[2].val, 1) = { 15, 9, 8, 6, 5, 3, 1, 0 }

\* C30: a receiver start that passes the PHY set-up writes FLD_REG, once;
\* FLD_REG is written with 0 unless the field mode is alternating;
\* for an alternating field it is written with the detection enable bits
\* (FLD_DET_SEL 1, FLD_EN4..FLD_EN) and the frame-count selector in bits
\* 23..16: 0 at height 240, 1 at every other height.
C30_FieldDetection ==
    Returned("rcsi2_start_receiver") =>
        /\ out.ret = 0 => Len(wlog) > 0 /\ wlog[Len(wlog)].reg = "FLD_REG"
        /\ \A k \in 1..Len(wlog) :
              wlog[k].reg = "FLD_REG" =>
                 /\ k = Len(wlog)
                 /\ wlog[k].val =
                       IF job.arg.field # "ALTERNATE" THEN {}
                       ELSE IF job.arg.height = 240 THEN { 4, 3, 2, 1, 0 }
                       ELSE { 16, 4, 3, 2, 1, 0 }

\* an alternating field of height 240: detection on, selector 0
C30_Witness ==
    /\ Returned("rcsi2_start_receiver")
    /\ job.arg.field = "ALTERNATE" /\ job.arg.height = 240
    /\ Len(wlog) > 0
    /\ wlog[Len(wlog)] = [reg |-> "FLD_REG", val |-> { 4, 3, 2, 1, 0 }]

C25_StopStateTimeout ==
    \A p \in Callers :
        pc[p] = "unlock" /\ enable[p] =>
            /\ fail[p] = "poll" =>
                  /\ ~(IsV4H \/ IsV4M)
                  /\ ret[p] = "ETIMEDOUT"
                  /\ hw.standby
                  /\ Occurrences(ops[p], "source_on") = 0
                  /\ stream_count = pre_count[p]
            /\ fail[p] = "confirm" =>
                  /\ IsV4H \/ IsV4M
                  /\ ret[p] = "ok"
                  /\ ~hw.standby /\ hw.source_on
                  /\ stream_count = pre_count[p] + 1

\* on V4H or V4M a start() is about to return success although the
\* stop-state poll timed out
C25_Witness ==
    \E p \in Callers :
        /\ pc[p] = "unlock" /\ enable[p] /\ fail[p] = "confirm"
        /\ ret[p] = "ok" /\ stream_count = 1

\* C26: a stop-state poll returns 0 exactly when one of 21 reads showed the
\* stop state of the clock lane and of the data lanes 0..lanes-1, the other
\* lanes' bits being of no account; otherwise it returns -ETIMEDOUT.
C26_LaneReadyExactly ==
    job \in StopStateJobs /\ upc = "done" =>
        /\ out.ret = 0 <=> lp11_at \in 1..21
        /\ out.ret # 0 => out.ret = -Errno("ETIMEDOUT") /\ reads = 21

\* C27: on every variant that takes the pixel rate from its source, the
\* speed rcsi2_calc_mbps returns for a source with a pixel-rate control is
\* the largest integer q with q * lanes * 1000000 <= bpp * rate, that is
\* floor(bpp * rate / (lanes * 1000000)).
C27_LinkSpeed ==
    /\ Returned("rcsi2_calc_mbps")
    /\ ~IsX5H /\ job.arg.remote /\ job.arg.ctrl
    => /\ out.ret >= 0
       /\ out.ret * job.arg.lanes * 1000000 <= job.arg.bpp * job.arg.rate
       /\ job.arg.bpp * job.arg.rate < (out.ret + 1) * job.arg.lanes * 1000000

\* 24 bits per pixel at 74.25 MHz over 4 lanes: 445 Mbps per lane
C27_Witness ==
    /\ Returned("rcsi2_calc_mbps")
    /\ ~IsX5H /\ job.arg.remote /\ job.arg.ctrl
    /\ job.arg.bpp = 24 /\ job.arg.rate = 74250000 /\ job.arg.lanes = 4
    /\ out.ret = 445

C29_ActiveLanes ==
    Returned("rcsi2_get_active_lanes") =>
        /\ /\ ~IsX5H /\ job.arg.remote
           /\ \/ job.arg.query = -Errno("ENOIOCTLCMD")
              \/ /\ job.arg.query = 0
                 /\ job.arg.type \in { "DPHY", "CPHY" }
                 /\ job.arg.flags = {}
           => out.ret = 0 /\ out.sel.lanes = job.arg.lanes
        /\ out.ret = 0 => out.sel.lanes \in 1..job.arg.lanes

\* the position of the step on reg in the log of steps, 0 when it is absent
StepAt(reg) ==
    IF \E k \in DOMAIN wlog : wlog[k].reg = reg
    THEN CHOOSE k \in DOMAIN wlog : wlog[k].reg = reg ELSE 0

\* C31 as claimed: rcsi2_enter_standby asserts shutdown, clears the
\* interrupt enables, asserts reset, waits and releases the power hold, in
\* this order, and INTEN_REG holds 0 after it.
C31_TeardownClearsInten ==
    Returned("rcsi2_enter_standby") =>
        /\ 0 < StepAt("PHYCNT_REG")
        /\ StepAt("PHYCNT_REG") < StepAt("INTEN_REG")
        /\ StepAt("INTEN_REG") < StepAt("reset_control_assert")
        /\ StepAt("reset_control_assert") < StepAt("usleep_range")
        /\ StepAt("usleep_range") < StepAt("pm_runtime_put")
        /\ out.sel.inten = {}

\* C31 amended: rcsi2_enter_standby asserts shutdown (PHYCNT_REG = 0, then
\* the PHY test clear; not on V4H), asserts reset (not on X5H), waits and
\* releases the power hold, in this order and each once; it does not write
\* INTEN_REG, which holds after it what it held before unless the reset
\* cleared it.
C31_TeardownOrder ==
    Returned("rcsi2_enter_standby") =>
        /\ StepAt("INTEN_REG") = 0
        /\ (StepAt("PHYCNT_REG") = 0) <=> IsV4H
        /\ (StepAt("PHTC_REG") = 0) <=> IsV4H
        /\ (StepAt("reset_control_assert") = 0) <=> IsX5H
        /\ ~IsV4H => StepAt("PHYCNT_REG") = 1 /\ StepAt("PHTC_REG") = 2
        /\ ~IsX5H => StepAt("PHTC_REG") < StepAt("reset_control_assert")
        /\ StepAt("reset_control_assert") < StepAt("usleep_range")
        /\ StepAt("pm_runtime_put") = StepAt("usleep_range") + 1
        /\ StepAt("pm_runtime_put") = Len(wlog)
        /\ Len(wlog) = (IF IsV4H THEN 0 ELSE 2) + (IF IsX5H THEN 0 ELSE 1) + 2
        /\ out.sel.inten \in { job.arg.inten, {} }
        /\ IsX5H \/ ~job.arg.reset_clears => out.sel.inten = job.arg.inten

\* a Gen3 teardown after a bring-up that enabled three interrupts: five
\* steps, and INTEN_REG still holds the three enable bits
C31_Witness ==
    /\ Returned("rcsi2_enter_standby")
    /\ ~IsV4H /\ ~IsX5H /\ Len(wlog) = 5
    /\ job.arg.inten = {27, 4, 3} /\ out.sel.inten = {27, 4, 3}

\* C32: from the return of the thread's mutex_lock to its mutex_unlock the
\* thread owns priv->lock; meanwhile stream_count does not change, the
\* hardware changes only by the thread's own steps, and no s_stream call
\* enters or moves inside the locked region.
C32_RecoveryHoldsLock ==
    [][ pc[IrqThread] \in Critical =>
          /\ lock = IrqThread
          /\ pc'[IrqThread] # "idle" => lock' = IrqThread
          /\ stream_count' = stream_count
          /\ pc'[IrqThread] = pc[IrqThread] => hw' = hw
          /\ \A p \in Callers :
                pc[p] \notin Critical /\ pc'[p] \notin Critical ]_vars

\* the thread is between its rcsi2_stop and its rcsi2_start, a start() and
\* a stop() wait for the lock, and the count is still 1
C32_Witness ==
    /\ pc[IrqThread] = "start_exit" /\ lock = IrqThread
    /\ Len(ops[IrqThread]) = 2
    /\ pc["c1"] = "lock" /\ enable["c1"]
    /\ pc["c2"] = "lock" /\ ~enable["c2"]
    /\ stream_count = 1

\* C33: with pin swap enabled, for each trio whose ordering code is a code
\* of rcar_csi2_pin_swaps, the writes for that trio carry the three
\* patterns of the table entry with that code: afe_clane_29_b8 in bit 8 of
\* the pin-swap register, rw_cfg0_b2_0 and rw_cfg0_b3 in bits 2..0 and 3 of
\* the configuration register.
C33_PinSwapPatterns ==
    Returned("rcsi2_c_phy_setting") /\ job.arg.pin_swap =>
        \A i \in 0..2 : \A j \in 1..6 :
            rcar_csi2_pin_swaps[j].code = job.arg.order[i + 1] =>
                /\ \E k \in DOMAIN wlog :
                      /\ wlog[k].trio = i /\ wlog[k].reg = "rwconf_reg"
                      /\ wlog[k].val % 8 = rcar_csi2_pin_swaps[j].rw_cfg0_b2_0
                      /\ wlog[k].val \div 8 = rcar_csi2_pin_swaps[j].rw_cfg0_b3
                /\ \A k \in DOMAIN wlog :
                      wlog[k].trio = i /\ wlog[k].reg = "pin_swap_reg" =>
                          wlog[k].val = rcar_csi2_pin_swaps[j].afe_clane_29_b8

\* C34: the step32 loop of rcsi2_init_phtw_v4m issues an indirect write
\* with code 0xE2 and data osc_freq[7:0] and an indirect write with code
\* 0xE3 and data osc_freq[11:8].
C34_OscTargetSplit ==
    Returned("rcsi2_init_phtw_v4m") =>
        /\ \E k \in DOMAIN wlog :
              wlog[k].val = [data |-> job.arg.osc_freq % 256, code |-> 226]
        /\ \E k \in DOMAIN wlog :
              wlog[k].val = [data |-> (job.arg.osc_freq \div 256) % 16,
                             code |-> 227]

\* C35: an array run in which no write timed out has issued one indirect
\* write per listed pair, in listed order, the closing { 0, 0 } being the
\* last element of the array.
C35_ProgramWritten ==
    job.fn = "rcsi2_phtw_write_array" /\ upc = "done" /\ out.ret = 0 =>
        /\ Len(wlog) = Len(job.values) - 1
        /\ \A k \in DOMAIN wlog : wlog[k].val = job.values[k]

\* C36: rcsi2_exit_standby has run as often as rcsi2_enter_standby or once
\* more; rcsi2_enter_standby never runs on a receiver already in standby.
C36_StandbyBalanced ==
    /\ hw.pm_usage \in 0..1
    /\ hw.standby <=> hw.pm_usage = 0

\* C37: with stream_count at 0 the interrupt thread neither takes the
\* receiver out of standby nor enables the source, and it leaves the
\* receiver in standby and the source stopped.
C37_NoRecoveryWhenIdle ==
    stream_count = 0 /\ pc[IrqThread] \in Critical =>
        /\ \A k \in DOMAIN ops[IrqThread] :
              ops[IrqThread][k] \notin { "exit_standby", "source_on" }
        /\ pc[IrqThread] = "unlock" => hw.standby /\ ~hw.source_on

\* C38: no bring-up reads bpp or datatype through a NULL format descriptor;
\* a bring-up whose media bus code has no descriptor returns an error.
C38_FormatLookupChecked ==
    \A p \in Procs :
        /\ pc[p] # "oops"
        /\ fail[p] = "format" => ret[p] = "EINVAL"

\* C39: the source is told to stop (s_stream(0), csi2cam_stop) only while
\* its last stream-enable has succeeded and has not been undone since.
C39_SourceCallsBalanced ==
    [][ \A p \in Procs :
          /\ pc[p] = "stop_source"
          /\ pc'[p] # "stop_source"
          /\ IsX5H \/ remote
          => hw.source_on ]_vars

\* C40: the C-PHY timing lookup selects the entry with the smallest
\* threshold strictly greater than the rate (a rate equal to a threshold
\* selects the next entry, a rate below 80 the first); it returns -ERANGE,
\* with no register written, exactly when the rate is 3500 or more.
C40_CphyLookup ==
    Returned("rcsi2_c_phy_lookup") =>
        LET rate == job.arg.data_rate
            thresholds == { 80 } \cup { 100 * i : i \in 1..35 }
        IN  /\ out.ret = -Errno("ERANGE") <=> rate >= 3500
            /\ out.ret = -Errno("ERANGE") => wlog = << >>
            /\ rate < 3500 =>
                  /\ out.ret = 0
                  /\ out.sel.msps \in thresholds
                  /\ out.sel.msps > rate
                  /\ \A t \in thresholds : t > rate => out.sel.msps <= t
            /\ rate < 80 => out.sel.msps = 80

\* a rate equal to a threshold has selected the next entry
C40_Witness ==
    /\ Returned("rcsi2_c_phy_lookup")
    /\ job.arg.data_rate = 3400
    /\ out.ret = 0
    /\ out.sel.msps = 3500
    /\ Len(wlog) = 1

====
